---- MODULE Spec2Model ----
(***************************************************************************)
(* Model of terraform-provider-probe: the prober registry and type-name    *)
(* resolver, the DynamoDB and S3 backend probers, and the generic          *)
(* (Cloud Control) probe data source.                                      *)
(*                                                                         *)
(* Go strings that the code inspects character by character (type names,   *)
(* error texts, bucket names) are sequences of one-character strings, so   *)
(* that HasPrefix, Split, ToLower and contains are computed as the code    *)
(* computes them.  Strings the code only passes along are TLA+ strings.    *)
(***************************************************************************)
EXTENDS Integers, Sequences, FiniteSets, TLC

\* ------------------------------------------------------------------------
\* Bounds of the model
\* ------------------------------------------------------------------------
MaxInstances == 3   \* prober instances one registry may construct
MaxReqId == 3       \* characters of a backend request id
MaxTags == 2        \* tags one tag-listing response may carry
MaxGoroutines == 2  \* goroutines calling GetProber on one registry at once
MaxListLen == 2     \* elements of a list given to convertToAttrValue
MaxPages == 2       \* pages one policy simulation may span

\* ------------------------------------------------------------------------
\* String helpers (Go's strings package, part_003 contains)
\* ------------------------------------------------------------------------
HasPrefix(s, prefix) ==
    /\ Len(s) >= Len(prefix)
    /\ SubSeq(s, 1, Len(prefix)) = prefix

\* part_003 contains: for i := 0; i <= len(s)-len(substr); i++
contains(s, substr) ==
    \E i \in 0..(Len(s) - Len(substr)) : SubSeq(s, i + 1, i + Len(substr)) = substr

\* strings.Index: position (1-based) of the first occurrence, 0 when none
Index(s, sep) ==
    IF contains(s, sep)
    THEN CHOOSE i \in 1..Len(s) :
            /\ i + Len(sep) - 1 <= Len(s)
            /\ SubSeq(s, i, i + Len(sep) - 1) = sep
            /\ \A j \in 1..(i - 1) : SubSeq(s, j, j + Len(sep) - 1) # sep
    ELSE 0

\* strings.Split with a non-empty separator
RECURSIVE Split(_, _)
Split(s, sep) ==
    LET i == Index(s, sep)
    IN  IF i = 0 THEN <<s>>
        ELSE <<SubSeq(s, 1, i - 1)>> \o Split(SubSeq(s, i + Len(sep), Len(s)), sep)

UpperLetters == <<"A","B","C","D","E","F","G","H","I","J","K","L","M",
                  "N","O","P","Q","R","S","T","U","V","W","X","Y","Z">>
LowerLetters == <<"a","b","c","d","e","f","g","h","i","j","k","l","m",
                  "n","o","p","q","r","s","t","u","v","w","x","y","z">>

\* strings.ToLower
ToLower(s) ==
    [i \in 1..Len(s) |->
        IF \E k \in 1..26 : UpperLetters[k] = s[i]
        THEN LowerLetters[CHOOSE k \in 1..26 : UpperLetters[k] = s[i]]
        ELSE s[i]]

\* ------------------------------------------------------------------------
\* Type Name Resolver and Prober Registry (prober_registry.go)
\* ------------------------------------------------------------------------
K_aws_dynamodb_table == <<"a","w","s","_","d","y","n","a","m","o","d","b","_","t","a","b","l","e">>
K_aws_s3_bucket == <<"a","w","s","_","s","3","_","b","u","c","k","e","t">>

\* Variant: the alias table without the short forms
normalizedTypes_NoShortForm ==
    (<<"a","w","s","_","d","y","n","a","m","o","d","b","_","t","a","b","l","e">> :> K_aws_dynamodb_table)
    @@ (<<"A","W","S",":",":","D","y","n","a","m","o","D","B",":",":","T","a","b","l","e">> :> K_aws_dynamodb_table)
    @@ (<<"A","W","S",":",":","D","y","n","a","m","o","D","B",":",":","G","l","o","b","a","l","T","a","b","l","e">> :> K_aws_dynamodb_table)
    @@ (<<"a","w","s","_","s","3","_","b","u","c","k","e","t">> :> K_aws_s3_bucket)
    @@ (<<"A","W","S",":",":","S","3",":",":","B","u","c","k","e","t">> :> K_aws_s3_bucket)

normalizedTypes ==
    (<<"a","w","s","_","d","y","n","a","m","o","d","b","_","t","a","b","l","e">> :> K_aws_dynamodb_table)
    @@ (<<"A","W","S",":",":","D","y","n","a","m","o","D","B",":",":","T","a","b","l","e">> :> K_aws_dynamodb_table)
    @@ (<<"d","y","n","a","m","o","d","b","_","t","a","b","l","e">> :> K_aws_dynamodb_table)
    @@ (<<"A","W","S",":",":","D","y","n","a","m","o","D","B",":",":","G","l","o","b","a","l","T","a","b","l","e">> :> K_aws_dynamodb_table)
    @@ (<<"a","w","s","_","s","3","_","b","u","c","k","e","t">> :> K_aws_s3_bucket)
    @@ (<<"A","W","S",":",":","S","3",":",":","B","u","c","k","e","t">> :> K_aws_s3_bucket)
    @@ (<<"s","3","_","b","u","c","k","e","t">> :> K_aws_s3_bucket)

\* proberFactories: canonical key -> the kind of prober its factory constructs
proberFactories ==
    (K_aws_dynamodb_table :> "DynamoDBProber") @@ (K_aws_s3_bucket :> "S3Prober")

\* Variant: the derived name is service_resource, without the aws_ prefix
normalizeTypeName_ShortDerived(typeName) ==
    IF typeName \in DOMAIN normalizedTypes THEN normalizedTypes[typeName]
    ELSE IF HasPrefix(typeName, <<"a","w","s","_">>) THEN typeName
    ELSE IF HasPrefix(typeName, <<"A","W","S",":",":">>)
              /\ Len(Split(typeName, <<":",":">>)) = 3
         THEN LET parts == Split(typeName, <<":",":">>)
              IN  ToLower(parts[2]) \o <<"_">> \o ToLower(parts[3])
    ELSE typeName

normalizeTypeName(typeName) ==
    IF typeName \in DOMAIN normalizedTypes THEN normalizedTypes[typeName]
    ELSE IF HasPrefix(typeName, <<"a","w","s","_">>) THEN typeName
    ELSE IF HasPrefix(typeName, <<"A","W","S",":",":">>)
              /\ Len(Split(typeName, <<":",":">>)) = 3
         THEN LET parts == Split(typeName, <<":",":">>)
              IN  <<"a","w","s","_">> \o ToLower(parts[2]) \o <<"_">> \o ToLower(parts[3])
    ELSE typeName

\* Raw resource-type strings callers pass
TypeInputs ==
    { <<"a","w","s","_","d","y","n","a","m","o","d","b","_","t","a","b","l","e">>,
      <<"A","W","S",":",":","D","y","n","a","m","o","D","B",":",":","T","a","b","l","e">>,
      <<"d","y","n","a","m","o","d","b","_","t","a","b","l","e">>,
      <<"A","W","S",":",":","D","y","n","a","m","o","D","B",":",":","G","l","o","b","a","l","T","a","b","l","e">>,
      <<"a","w","s","_","s","3","_","b","u","c","k","e","t">>,
      <<"A","W","S",":",":","S","3",":",":","B","u","c","k","e","t">>,
      <<"s","3","_","b","u","c","k","e","t">>,
      <<"A","W","S",":",":","s","3",":",":","B","U","C","K","E","T">>,
      <<"A","W","S",":",":","L","a","m","b","d","a",":",":","F","u","n","c","t","i","o","n">>,
      <<"a","w","s","_","l","a","m","b","d","a","_","f","u","n","c","t","i","o","n">>,
      <<"a","w","s","_","S","3","_","b","u","c","k","e","t">>,
      <<"A","w","s",":",":","S","3",":",":","B","u","c","k","e","t">>,
      <<>>,
      <<"A","W","S",":",":">>,
      <<"A","W","S",":",":","S","3">>,
      <<"A","W","S",":",":","S","3",":",":","B","u","c","k","e","t",":",":","X">>,
      <<"A","W","S",":",":","S","3",":",":",":","B","u","c","k","e","t">>,
      <<"S","3","_","b","u","c","k","e","t">>,
      <<"l","a","m","b","d","a">> }

\* ------------------------------------------------------------------------
\* Backend responses (the AWS SDK calls the probers and the data source make)
\* ------------------------------------------------------------------------
\* Resource identifiers callers pass: the empty string, a plain name, and a
\* name made of digits
Identifiers == { <<>>, <<"b">>, <<"4","0","4">> }

\* Request ids the backend puts into its error responses
ReqIdChars == {"4", "0", "A"}
RequestIds == UNION { [1..n -> ReqIdChars] : n \in 0..MaxReqId }

\* HTTP status and error code of each typed backend error
ErrStatus ==
    [NotFound |-> <<"4","0","4">>, NoSuchBucket |-> <<"4","0","4">>,
     Forbidden |-> <<"4","0","3">>, SlowDown |-> <<"5","0","3">>,
     ResourceNotFoundException |-> <<"4","0","0">>,
     AccessDeniedException |-> <<"4","0","0">>,
     ThrottlingException |-> <<"4","0","0">>]
ErrCode ==
    [NotFound |-> <<"N","o","t","F","o","u","n","d">>,
     NoSuchBucket |-> <<"N","o","S","u","c","h","B","u","c","k","e","t">>,
     Forbidden |-> <<"F","o","r","b","i","d","d","e","n">>,
     SlowDown |-> <<"S","l","o","w","D","o","w","n">>,
     ResourceNotFoundException |-> <<"R","e","s","o","u","r","c","e","N","o","t","F","o","u","n","d","E","x","c","e","p","t","i","o","n">>,
     AccessDeniedException |-> <<"A","c","c","e","s","s","D","e","n","i","e","d","E","x","c","e","p","t","i","o","n">>,
     ThrottlingException |-> <<"T","h","r","o","t","t","l","i","n","g","E","x","c","e","p","t","i","o","n">>]

\* err.Error(): an API error names its status, request id and code; a
\* transport failure or a cancellation names the request target
ErrorText(type, identifier, rid) ==
    IF type = "RequestSendError"
    THEN <<"s","e","n","d"," ","f","a","i","l","e","d",":"," ">> \o identifier
            \o <<":"," ","n","o"," ","s","u","c","h"," ","h","o","s","t">>
    ELSE IF type = "ContextCanceled"
    THEN <<"s","e","n","d"," ","f","a","i","l","e","d",":"," ">> \o identifier
            \o <<":"," ","c","o","n","t","e","x","t"," ","c","a","n","c","e","l","e","d">>
    ELSE <<"S","t","a","t","u","s","C","o","d","e",":"," ">> \o ErrStatus[type]
            \o <<","," ","R","e","q","u","e","s","t","I","D",":"," ">> \o rid
            \o <<","," ","a","p","i"," ","e","r","r","o","r"," ">> \o ErrCode[type]

NoErr == [type |-> "nil", text |-> <<>>]
BackendError(type, identifier, rid) == [type |-> type, text |-> ErrorText(type, identifier, rid)]

\* Failures of DescribeTable and of HeadBucket
DynamoDBErrTypes ==
    {"ResourceNotFoundException", "AccessDeniedException", "ThrottlingException",
     "RequestSendError", "ContextCanceled"}
S3ErrTypes ==
    {"NotFound", "NoSuchBucket", "Forbidden", "SlowDown", "RequestSendError", "ContextCanceled"}
\* The permission failures (403 Forbidden, access denied)
PermissionErrTypes == {"Forbidden", "AccessDeniedException"}

\* Tag lists a tag-listing response may carry (aws.ToString of a nil key is "")
TagPool == { [Key |-> k, Value |-> v] : k \in {"", "Env"}, v \in {"test", "prod"} }
TagLists == UNION { [1..n -> TagPool] : n \in 0..MaxTags }
\* A tag-listing call fails, or succeeds with a list of tags
TagOutcomes ==
    { [issued |-> TRUE, ok |-> FALSE, Tags |-> <<>>] }
        \cup { [issued |-> TRUE, ok |-> TRUE, Tags |-> l] : l \in TagLists }
\* No tag-listing request was issued
NoTagging == [issued |-> FALSE, ok |-> FALSE, Tags |-> <<>>]

\* DescribeTable output: aws.ToString(TableArn) is "" when the field is nil
TableDescriptions ==
    { [TableName |-> "tbl", TableArn |-> a, TableStatus |-> st] :
        a \in { <<>>, <<"a","r","n",":","t">> }, st \in {"ACTIVE", "CREATING"} }

\* GetBucketLocation fails, or succeeds with a LocationConstraint
LocationOutcomes ==
    { [issued |-> TRUE, ok |-> FALSE, LocationConstraint |-> ""] }
        \cup { [issued |-> TRUE, ok |-> TRUE, LocationConstraint |-> l] : l \in {"", "eu-west-1"} }
\* No GetBucketLocation request was issued
NoLocation == [issued |-> FALSE, ok |-> FALSE, LocationConstraint |-> ""]

\* ------------------------------------------------------------------------
\* ProbeResult (prober.go) and the probers
\* ------------------------------------------------------------------------
NilMap == [nil |-> TRUE, m |-> <<>>]
MakeMap(f) == [nil |-> FALSE, m |-> f]

\* Variant: the not-found result carries empty, non-nil maps
NotFoundResult_EmptyMaps ==
    [nil |-> FALSE, Exists |-> FALSE, Arn |-> <<>>, Properties |-> MakeMap(<<>>),
     Tags |-> MakeMap(<<>>)]

\* A nil *ProbeResult
NilResult == [nil |-> TRUE, Exists |-> FALSE, Arn |-> <<>>, Properties |-> NilMap, Tags |-> NilMap]
\* &ProbeResult{Exists: false}, with its zero fields
NotFoundResult == [nil |-> FALSE, Exists |-> FALSE, Arn |-> <<>>, Properties |-> NilMap, Tags |-> NilMap]

\* result.Tags[aws.ToString(tag.Key)] = aws.ToString(tag.Value), in list order
TagsToMap(tagList) ==
    [k \in { tagList[i].Key : i \in 1..Len(tagList) } |->
        LET last == CHOOSE i \in 1..Len(tagList) :
                        /\ tagList[i].Key = k
                        /\ \A j \in (i + 1)..Len(tagList) : tagList[j].Key # k
        IN  tagList[last].Value]

\* errors.As(err, &target): err's chain holds an error of the target type
ErrorsAs(err, target) == err.type = target

\* Variant: a cancelled request is taken for a missing table
DynamoDBIsNotFound_OrCanceled(err) ==
    ErrorsAs(err, "ResourceNotFoundException") \/ ErrorsAs(err, "ContextCanceled")

\* var notFoundErr *types.ResourceNotFoundException; errors.As(err, &notFoundErr)
DynamoDBIsNotFound(err) == ErrorsAs(err, "ResourceNotFoundException")

\* Variant: an empty tag list still yields a tag map
TagsUsable_IgnoreEmpty(tagging) == tagging.ok

\* err == nil && len(tags.Tags) > 0 (len(tags.TagSet) > 0 for S3)
TagsUsable(tagging) == tagging.ok /\ Len(tagging.Tags) > 0

\* DescribeTable fails, or succeeds with a table description
DescribeOutcomes(identifier) ==
    { [err |-> BackendError(t, identifier, rid), Table |-> CHOOSE d \in TableDescriptions : TRUE] :
        t \in DynamoDBErrTypes, rid \in RequestIds }
    \cup { [err |-> NoErr, Table |-> d] : d \in TableDescriptions }

\* Variant: the tag listing is requested whether or not the table has an ARN
DynamoDBProber_Probe_TagWithoutArn(identifier, describe, tagging) ==
    IF describe.err # NoErr
    THEN IF DynamoDBIsNotFound(describe.err)
         THEN [requests |-> <<"DescribeTable">>, result |-> NotFoundResult, err |-> NoErr]
         ELSE [requests |-> <<"DescribeTable">>, result |-> NilResult, err |-> describe.err]
    ELSE LET table == describe.Table
             properties ==
                 [TableName |-> table.TableName, TableArn |-> table.TableArn,
                  TableStatus |-> table.TableStatus, TableId |-> "id",
                  CreationDateTime |-> "time", ItemCount |-> "count",
                  TableSizeBytes |-> "size", DeletionProtection |-> "false",
                  BillingModeSummary |-> "billing", ProvisionedThroughput |-> "throughput",
                  KeySchema |-> "schema", AttributeDefinitions |-> "attributes"]
             result == [nil |-> FALSE, Exists |-> TRUE, Arn |-> table.TableArn,
                        Properties |-> MakeMap(properties), Tags |-> NilMap]
         IN  IF TagsUsable(tagging)
             THEN LET tags == MakeMap(TagsToMap(tagging.Tags))
                  IN  [requests |-> <<"DescribeTable", "ListTagsOfResource">>,
                       result |-> [result EXCEPT
                                     !.Tags = tags,
                                     !.Properties = MakeMap(properties @@ [Tags |-> tags])],
                       err |-> NoErr]
             ELSE [requests |-> <<"DescribeTable", "ListTagsOfResource">>,
                   result |-> result, err |-> NoErr]

\* Variant: a failed DescribeTable is retried once before the error is returned
DynamoDBProber_Probe_Retry(identifier, describe, tagging) ==
    IF describe.err # NoErr
    THEN IF DynamoDBIsNotFound(describe.err)
         THEN [requests |-> <<"DescribeTable">>, result |-> NotFoundResult, err |-> NoErr]
         ELSE [requests |-> <<"DescribeTable", "DescribeTable">>, result |-> NilResult,
               err |-> describe.err]
    ELSE LET table == describe.Table
             properties ==
                 [TableName |-> table.TableName, TableArn |-> table.TableArn,
                  TableStatus |-> table.TableStatus, TableId |-> "id",
                  CreationDateTime |-> "time", ItemCount |-> "count",
                  TableSizeBytes |-> "size", DeletionProtection |-> "false",
                  BillingModeSummary |-> "billing", ProvisionedThroughput |-> "throughput",
                  KeySchema |-> "schema", AttributeDefinitions |-> "attributes"]
             result == [nil |-> FALSE, Exists |-> TRUE, Arn |-> table.TableArn,
                        Properties |-> MakeMap(properties), Tags |-> NilMap]
         IN  IF result.Arn # <<>>
             THEN IF TagsUsable(tagging)
                  THEN LET tags == MakeMap(TagsToMap(tagging.Tags))
                       IN  [requests |-> <<"DescribeTable", "ListTagsOfResource">>,
                            result |-> [result EXCEPT
                                          !.Tags = tags,
                                          !.Properties = MakeMap(properties @@ [Tags |-> tags])],
                            err |-> NoErr]
                  ELSE [requests |-> <<"DescribeTable", "ListTagsOfResource">>,
                        result |-> result, err |-> NoErr]
             ELSE [requests |-> <<"DescribeTable">>, result |-> result, err |-> NoErr]

\* DynamoDBProber.Probe: the requests it issues, and what it returns
DynamoDBProber_Probe(identifier, describe, tagging) ==
    IF describe.err # NoErr
    THEN IF DynamoDBIsNotFound(describe.err)
         THEN [requests |-> <<"DescribeTable">>, result |-> NotFoundResult, err |-> NoErr]
         ELSE [requests |-> <<"DescribeTable">>, result |-> NilResult, err |-> describe.err]
    ELSE LET table == describe.Table
             properties ==
                 [TableName |-> table.TableName,
                  TableArn |-> table.TableArn,
                  TableStatus |-> table.TableStatus,
                  TableId |-> "id",
                  CreationDateTime |-> "time",
                  ItemCount |-> "count",
                  TableSizeBytes |-> "size",
                  DeletionProtection |-> "false",
                  BillingModeSummary |-> "billing",
                  ProvisionedThroughput |-> "throughput",
                  KeySchema |-> "schema",
                  AttributeDefinitions |-> "attributes"]
             result == [nil |-> FALSE, Exists |-> TRUE, Arn |-> table.TableArn,
                        Properties |-> MakeMap(properties), Tags |-> NilMap]
         IN  IF result.Arn # <<>>
             THEN IF TagsUsable(tagging)
                  THEN LET tags == MakeMap(TagsToMap(tagging.Tags))
                       IN  [requests |-> <<"DescribeTable", "ListTagsOfResource">>,
                            result |-> [result EXCEPT
                                          !.Tags = tags,
                                          !.Properties = MakeMap(properties @@ [Tags |-> tags])],
                            err |-> NoErr]
                  ELSE [requests |-> <<"DescribeTable", "ListTagsOfResource">>,
                        result |-> result, err |-> NoErr]
             ELSE [requests |-> <<"DescribeTable">>, result |-> result, err |-> NoErr]

\* HeadBucket fails, or succeeds
HeadBucketOutcomes(identifier) ==
    { BackendError(t, identifier, rid) : t \in S3ErrTypes, rid \in RequestIds } \cup { NoErr }

\* isS3NotFound
isS3NotFound(err) ==
    \/ contains(err.text, <<"4","0","4">>)
    \/ contains(err.text, <<"N","o","t","F","o","u","n","d">>)
    \/ contains(err.text, <<"N","o","S","u","c","h","B","u","c","k","e","t">>)

\* S3Prober.Probe: the requests it issues, and what it returns
S3Prober_Probe(identifier, head, location, tagging) ==
    IF head # NoErr
    THEN IF ErrorsAs(head, "NotFound") \/ ErrorsAs(head, "NoSuchBucket")
         THEN [requests |-> <<"HeadBucket">>, result |-> NotFoundResult, err |-> NoErr]
         ELSE IF isS3NotFound(head)
         THEN [requests |-> <<"HeadBucket">>, result |-> NotFoundResult, err |-> NoErr]
         ELSE [requests |-> <<"HeadBucket">>, result |-> NilResult, err |-> head]
    ELSE LET arn == <<"a","r","n",":","a","w","s",":","s","3",":",":",":">> \o identifier
             base == [BucketName |-> identifier, Arn |-> arn]
             withRegion ==
                 IF location.ok
                 THEN base @@ [Region |-> IF location.LocationConstraint = ""
                                          THEN "us-east-1"
                                          ELSE location.LocationConstraint]
                 ELSE base
             requests == <<"HeadBucket", "GetBucketLocation", "GetBucketTagging">>
         IN  IF TagsUsable(tagging)
             THEN LET tags == MakeMap(TagsToMap(tagging.Tags))
                  IN  [requests |-> requests,
                       result |-> [nil |-> FALSE, Exists |-> TRUE, Arn |-> arn,
                                   Properties |-> MakeMap(withRegion @@ [Tags |-> tags]),
                                   Tags |-> tags],
                       err |-> NoErr]
             ELSE [requests |-> requests,
                   result |-> [nil |-> FALSE, Exists |-> TRUE, Arn |-> arn,
                               Properties |-> MakeMap(withRegion), Tags |-> NilMap],
                   err |-> NoErr]

\* ------------------------------------------------------------------------
\* Value Converter and ARN extractor (probe_data_source.go, part_005)
\* ------------------------------------------------------------------------
\* Untyped Go values as encoding/json decodes them: each variant is a record
\* with a field of its own
JNull == [null |-> TRUE]
JString(s) == [string |-> s]
JFloat64(n) == [float64 |-> n]
JBool(b) == [bool |-> b]
JList(l) == [list |-> l]
JMap(m) == [map |-> m]
IsJ(v, variant) == variant \in DOMAIN v

\* attr.Type
StringType == [Prim |-> "String"]
Float64Type == [Prim |-> "Float64"]
BoolType == [Prim |-> "Bool"]
ListType(elemType) == [ListOf |-> elemType]
MapType(elemType) == [MapOf |-> elemType]
ObjectType(attrTypes) == [ObjectOf |-> attrTypes]

\* attr.Value
StringNull == [StringNull |-> TRUE]
StringValue(s) == [String |-> s]
Float64Value(n) == [Float64 |-> n]
BoolValue(b) == [Bool |-> b]
ListNull(elemType) == [ListNull |-> elemType]
MapNull(elemType) == [MapNull |-> elemType]
ListValue(elemType, elements) == [ListElemType |-> elemType, List |-> elements]
ObjectValue(attrTypes, attributes) == [AttrTypes |-> attrTypes, Object |-> attributes]
\* The call panicked (a ...Must constructor was handed invalid elements)
Panicked == [Panic |-> TRUE]
IsPanic(v) == "Panic" \in DOMAIN v

\* attr.Value.Type
TypeOf(v) ==
    IF "String" \in DOMAIN v \/ "StringNull" \in DOMAIN v THEN StringType
    ELSE IF "Float64" \in DOMAIN v THEN Float64Type
    ELSE IF "Bool" \in DOMAIN v THEN BoolType
    ELSE IF "ListNull" \in DOMAIN v THEN ListType(v.ListNull)
    ELSE IF "List" \in DOMAIN v THEN ListType(v.ListElemType)
    ELSE IF "MapNull" \in DOMAIN v THEN MapType(v.MapNull)
    ELSE ObjectType(v.AttrTypes)

\* types.ListValueMust: panics unless every element has the element type
ListValueMust(elemType, elements) ==
    IF \A i \in 1..Len(elements) : TypeOf(elements[i]) = elemType
    THEN ListValue(elemType, elements)
    ELSE Panicked

\* strconv's decimal rendering of an integer
RECURSIVE FormatInt(_)
FormatInt(n) ==
    LET digits == <<"0", "1", "2", "3", "4", "5", "6", "7", "8", "9">>
    IN  IF n < 0 THEN "-" \o FormatInt(0 - n)
        ELSE IF n < 10 THEN digits[n + 1]
        ELSE FormatInt(n \div 10) \o digits[(n % 10) + 1]

\* The keys that string-to-string maps use here, in sorted order (fmt prints a
\* map's entries sorted by key)
SortedKeys == <<"Environment", "Owner">>

\* fmt's rendering of a map[string]string from position i of SortedKeys on
RECURSIVE FormatEntries(_, _, _)
FormatEntries(m, i, first) ==
    IF i > Len(SortedKeys) THEN ""
    ELSE IF SortedKeys[i] \in DOMAIN m
    THEN (IF first THEN "" ELSE " ") \o SortedKeys[i] \o ":" \o m[SortedKeys[i]]
             \o FormatEntries(m, i + 1, FALSE)
    ELSE FormatEntries(m, i + 1, first)

\* fmt.Sprintf("%%v", val) for the values that reach the default branch
Sprintf(val) ==
    IF IsJ(val, "int") THEN FormatInt(val.int)
    ELSE IF IsJ(val, "int64") THEN FormatInt(val.int64)
    ELSE IF IsJ(val, "stringmap") THEN "map[" \o FormatEntries(val.stringmap, 1, TRUE) \o "]"
    ELSE "{" \o FormatInt(val.struct) \o "}"

\* Variant: an empty list converts to an empty list value
RECURSIVE convertToAttrValue_EmptyListValue(_)
convertToAttrValue_EmptyListValue(v) ==
    IF IsJ(v, "null") THEN StringNull
    ELSE IF IsJ(v, "string") THEN StringValue(v.string)
    ELSE IF IsJ(v, "float64") THEN Float64Value(v.float64)
    ELSE IF IsJ(v, "bool") THEN BoolValue(v.bool)
    ELSE IF IsJ(v, "list")
    THEN IF Len(v.list) = 0 THEN ListValue(StringType, <<>>)
         ELSE LET elements == [i \in 1..Len(v.list) |-> convertToAttrValue_EmptyListValue(v.list[i])]
              IN  IF \E i \in 1..Len(elements) : IsPanic(elements[i]) THEN Panicked
                  ELSE ListValueMust(TypeOf(elements[1]), elements)
    ELSE IF IsJ(v, "map")
    THEN IF DOMAIN v.map = {} THEN MapNull(StringType)
         ELSE LET elements == [k \in DOMAIN v.map |-> convertToAttrValue_EmptyListValue(v.map[k])]
              IN  IF \E k \in DOMAIN elements : IsPanic(elements[k]) THEN Panicked
                  ELSE ObjectValue([k \in DOMAIN elements |-> TypeOf(elements[k])], elements)
    ELSE StringValue(Sprintf(v))

\* convertToAttrValue
RECURSIVE convertToAttrValue(_)
convertToAttrValue(v) ==
    IF IsJ(v, "null") THEN StringNull
    ELSE IF IsJ(v, "string") THEN StringValue(v.string)
    ELSE IF IsJ(v, "float64") THEN Float64Value(v.float64)
    ELSE IF IsJ(v, "bool") THEN BoolValue(v.bool)
    ELSE IF IsJ(v, "list")
    THEN IF Len(v.list) = 0 THEN ListNull(StringType)
         ELSE LET elements == [i \in 1..Len(v.list) |-> convertToAttrValue(v.list[i])]
              IN  IF \E i \in 1..Len(elements) : IsPanic(elements[i]) THEN Panicked
                  ELSE ListValueMust(TypeOf(elements[1]), elements)
    ELSE IF IsJ(v, "map")
    THEN IF DOMAIN v.map = {} THEN MapNull(StringType)
         ELSE LET elements == [k \in DOMAIN v.map |-> convertToAttrValue(v.map[k])]
              IN  IF \E k \in DOMAIN elements : IsPanic(elements[k]) THEN Panicked
                  ELSE ObjectValue([k \in DOMAIN elements |-> TypeOf(elements[k])], elements)
    ELSE StringValue(Sprintf(v))

arnFields ==
    <<"Arn", "TableArn", "FunctionArn", "RoleArn", "BucketArn", "QueueArn", "TopicArn",
      "ClusterArn", "ServiceArn", "TaskDefinitionArn", "SecretArn", "StateMachineArn",
      "StreamArn", "LogGroupArn", "DBInstanceArn", "DBClusterArn", "CacheClusterArn",
      "VpcId", "ApiId">>

\* properties[field].(string) succeeded with a non-empty string
HasArnAt(properties, field) ==
    /\ field \in DOMAIN properties.m
    /\ IsJ(properties.m[field], "string")
    /\ properties.m[field].string # ""

\* Variant: the loop keeps going and the last matching field wins
RECURSIVE extractArnLoop_LastMatch(_, _)
extractArnLoop_LastMatch(properties, i) ==
    IF i > Len(arnFields) THEN ""
    ELSE LET rest == extractArnLoop_LastMatch(properties, i + 1)
         IN  IF rest # "" THEN rest
             ELSE IF HasArnAt(properties, arnFields[i])
             THEN properties.m[arnFields[i]].string
             ELSE ""

\* for _, field := range arnFields { if arn, ok := ...; ok && arn != "" { return arn } }
\* return "": the loop from position i of arnFields on
RECURSIVE extractArnLoop(_, _)
extractArnLoop(properties, i) ==
    IF i > Len(arnFields) THEN ""
    ELSE IF HasArnAt(properties, arnFields[i]) THEN properties.m[arnFields[i]].string
    ELSE extractArnLoop(properties, i + 1)

\* extractArn
extractArn(properties) ==
    IF properties.nil THEN "" ELSE extractArnLoop(properties, 1)

\* ------------------------------------------------------------------------
\* Generic probe data source (part_002, probe_data_source.go)
\* ------------------------------------------------------------------------
tfToCloudControl ==
    (<<"a","w","s","_","l","a","m","b","d","a","_","f","u","n","c","t","i","o","n">>
         :> <<"A","W","S",":",":","L","a","m","b","d","a",":",":","F","u","n","c","t","i","o","n">>)
    @@ (<<"a","w","s","_","e","c","s","_","c","l","u","s","t","e","r">>
         :> <<"A","W","S",":",":","E","C","S",":",":","C","l","u","s","t","e","r">>)
    @@ (<<"a","w","s","_","e","c","s","_","s","e","r","v","i","c","e">>
         :> <<"A","W","S",":",":","E","C","S",":",":","S","e","r","v","i","c","e">>)
    @@ (<<"a","w","s","_","e","c","s","_","t","a","s","k">>
         :> <<"A","W","S",":",":","E","C","S",":",":","T","a","s","k","D","e","f","i","n","i","t","i","o","n">>)
    @@ (<<"a","w","s","_","d","y","n","a","m","o","d","b","_","t","a","b","l","e">>
         :> <<"A","W","S",":",":","D","y","n","a","m","o","D","B",":",":","T","a","b","l","e">>)
    @@ (<<"a","w","s","_","s","3","_","b","u","c","k","e","t">>
         :> <<"A","W","S",":",":","S","3",":",":","B","u","c","k","e","t">>)
    @@ (<<"a","w","s","_","s","q","s","_","q","u","e","u","e">>
         :> <<"A","W","S",":",":","S","Q","S",":",":","Q","u","e","u","e">>)
    @@ (<<"a","w","s","_","s","n","s","_","t","o","p","i","c">>
         :> <<"A","W","S",":",":","S","N","S",":",":","T","o","p","i","c">>)
    @@ (<<"a","w","s","_","i","a","m","_","r","o","l","e">>
         :> <<"A","W","S",":",":","I","A","M",":",":","R","o","l","e">>)
    @@ (<<"a","w","s","_","i","a","m","_","p","o","l","i","c","y">>
         :> <<"A","W","S",":",":","I","A","M",":",":","M","a","n","a","g","e","d","P","o","l","i","c","y">>)
    @@ (<<"a","w","s","_","i","a","m","_","u","s","e","r">>
         :> <<"A","W","S",":",":","I","A","M",":",":","U","s","e","r">>)
    @@ (<<"a","w","s","_","i","a","m","_","g","r","o","u","p">>
         :> <<"A","W","S",":",":","I","A","M",":",":","G","r","o","u","p">>)
    @@ (<<"a","w","s","_","a","p","i","g","a","t","e","w","a","y","v","2","_","a","p","i">>
         :> <<"A","W","S",":",":","A","p","i","G","a","t","e","w","a","y","V","2",":",":","A","p","i">>)
    @@ (<<"a","w","s","_","a","p","i","_","g","a","t","e","w","a","y","_","r","e","s","t","_","a","p","i">>
         :> <<"A","W","S",":",":","A","p","i","G","a","t","e","w","a","y",":",":","R","e","s","t","A","p","i">>)
    @@ (<<"a","w","s","_","v","p","c">>
         :> <<"A","W","S",":",":","E","C","2",":",":","V","P","C">>)
    @@ (<<"a","w","s","_","s","u","b","n","e","t">>
         :> <<"A","W","S",":",":","E","C","2",":",":","S","u","b","n","e","t">>)
    @@ (<<"a","w","s","_","s","e","c","u","r","i","t","y","_","g","r","o","u","p">>
         :> <<"A","W","S",":",":","E","C","2",":",":","S","e","c","u","r","i","t","y","G","r","o","u","p">>)
    @@ (<<"a","w","s","_","i","n","t","e","r","n","e","t","_","g","a","t","e","w","a","y">>
         :> <<"A","W","S",":",":","E","C","2",":",":","I","n","t","e","r","n","e","t","G","a","t","e","w","a","y">>)
    @@ (<<"a","w","s","_","s","e","c","r","e","t","s","m","a","n","a","g","e","r","_","s","e","c","r","e","t">>
         :> <<"A","W","S",":",":","S","e","c","r","e","t","s","M","a","n","a","g","e","r",":",":","S","e","c","r","e","t">>)
    @@ (<<"a","w","s","_","s","s","m","_","p","a","r","a","m","e","t","e","r">>
         :> <<"A","W","S",":",":","S","S","M",":",":","P","a","r","a","m","e","t","e","r">>)
    @@ (<<"a","w","s","_","c","l","o","u","d","w","a","t","c","h","_","l","o","g","_","g","r","o","u","p">>
         :> <<"A","W","S",":",":","L","o","g","s",":",":","L","o","g","G","r","o","u","p">>)
    @@ (<<"a","w","s","_","c","l","o","u","d","w","a","t","c","h","_","m","e","t","r","i","c","_","a","l","a","r","m">>
         :> <<"A","W","S",":",":","C","l","o","u","d","W","a","t","c","h",":",":","A","l","a","r","m">>)
    @@ (<<"a","w","s","_","s","f","n","_","s","t","a","t","e","_","m","a","c","h","i","n","e">>
         :> <<"A","W","S",":",":","S","t","e","p","F","u","n","c","t","i","o","n","s",":",":","S","t","a","t","e","M","a","c","h","i","n","e">>)
    @@ (<<"a","w","s","_","c","l","o","u","d","w","a","t","c","h","_","e","v","e","n","t","_","r","u","l","e">>
         :> <<"A","W","S",":",":","E","v","e","n","t","s",":",":","R","u","l","e">>)
    @@ (<<"a","w","s","_","c","l","o","u","d","w","a","t","c","h","_","e","v","e","n","t","_","b","u","s">>
         :> <<"A","W","S",":",":","E","v","e","n","t","s",":",":","E","v","e","n","t","B","u","s">>)
    @@ (<<"a","w","s","_","k","i","n","e","s","i","s","_","s","t","r","e","a","m">>
         :> <<"A","W","S",":",":","K","i","n","e","s","i","s",":",":","S","t","r","e","a","m">>)
    @@ (<<"a","w","s","_","d","b","_","i","n","s","t","a","n","c","e">>
         :> <<"A","W","S",":",":","R","D","S",":",":","D","B","I","n","s","t","a","n","c","e">>)
    @@ (<<"a","w","s","_","d","b","_","c","l","u","s","t","e","r">>
         :> <<"A","W","S",":",":","R","D","S",":",":","D","B","C","l","u","s","t","e","r">>)
    @@ (<<"a","w","s","_","e","l","a","s","t","i","c","a","c","h","e","_","c","l","u","s","t","e","r">>
         :> <<"A","W","S",":",":","E","l","a","s","t","i","C","a","c","h","e",":",":","C","a","c","h","e","C","l","u","s","t","e","r">>)

\* resolveCloudControlType
\* Variant: a name that is neither in the table nor AWS::-prefixed resolves to ""
resolveCloudControlType_RejectUnknown(tfType) ==
    IF tfType \in DOMAIN tfToCloudControl THEN tfToCloudControl[tfType]
    ELSE IF HasPrefix(tfType, <<"A","W","S",":",":">>) THEN tfType
    ELSE <<>>

resolveCloudControlType(tfType) ==
    IF tfType \in DOMAIN tfToCloudControl THEN tfToCloudControl[tfType]
    ELSE IF HasPrefix(tfType, <<"A","W","S",":",":">>) THEN tfType
    ELSE tfType

\* Values of the "type" attribute given to the data source
ReadTypeInputs ==
    { <<"a","w","s","_","d","y","n","a","m","o","d","b","_","t","a","b","l","e">>,
      <<"A","W","S",":",":","D","y","n","a","m","o","D","B",":",":","T","a","b","l","e">>,
      <<"a","w","s","_","v","p","c">>,
      <<"a","w","s","_","u","n","k","n","o","w","n">>,
      <<>>,
      <<"d","y","n","a","m","o","d","b","_","t","a","b","l","e">> }

\* Failures of the Cloud Control GetResource call
CloudControlErrTypes ==
    {"ResourceNotFoundException", "AccessDeniedException", "ThrottlingException",
     "RequestSendError", "ContextCanceled"}

\* Property values a resource description may hold
ArnValues == { JString(""), JString("arn:a"), JFloat64(1) }
OtherValues ==
    { JNull, JBool(TRUE), JList(<<>>), JList(<<JString("a"), JString("b")>>),
      JList(<<JString("a"), JFloat64(1)>>), JMap(<<>>), JMap([Name |-> JString("n")]) }
PropertyMaps ==
    { a @@ b @@ c :
        a \in { <<>> } \cup { [Arn |-> v] : v \in ArnValues },
        b \in { <<>> } \cup { [TableArn |-> v] : v \in ArnValues },
        c \in { <<>> } \cup { [Other |-> v] : v \in OtherValues } }

\* The Properties string of a resource description, by what json.Unmarshal
\* into a map makes of it: an error, a nil map (JSON null), or the object
PropertiesPayloads ==
    { [json |-> "invalid", props |-> NilMap], [json |-> "null", props |-> NilMap] }
        \cup { [json |-> "object", props |-> MakeMap(m)] : m \in PropertyMaps }

\* No resource description was returned
NoPayload == [json |-> "none", props |-> NilMap]

\* GetResource fails, or succeeds with a resource description
GetResourceOutcomes(identifier) ==
    { [err |-> BackendError(t, identifier, rid), Properties |-> NoPayload] :
        t \in CloudControlErrTypes, rid \in RequestIds }
    \cup { [err |-> NoErr, Properties |-> p] : p \in PropertiesPayloads }

\* parsePropertiesToMap
parsePropertiesToMap(payload) ==
    IF payload.json = "invalid" THEN NilMap ELSE payload.props

\* types.Dynamic
DynamicNull == [DynamicNull |-> TRUE]
DynamicValue(val) == [Dynamic |-> val]

\* parsePropertiesToDynamic: the value and the error diagnostics
parsePropertiesToDynamic(payload) ==
    IF payload.json = "invalid"
    THEN [value |-> DynamicNull, diags |-> <<[summary |-> "Failed to parse properties", detail |-> <<>>]>>, panic |-> FALSE]
    ELSE LET val == convertToAttrValue(JMap(payload.props.m))
         IN  IF IsPanic(val)
             THEN [value |-> DynamicNull, diags |-> <<>>, panic |-> TRUE]
             ELSE [value |-> DynamicValue(val), diags |-> <<>>, panic |-> FALSE]

\* ProbeDataSourceModel before Read has set a computed attribute, and the
\* case that no state was written
BoolNull == [BoolNull |-> TRUE]
NoState == [written |-> FALSE, Exists |-> BoolNull, Arn |-> StringNull, Properties |-> DynamicNull]
WrittenState(exists, arn, properties) ==
    [written |-> TRUE, Exists |-> exists, Arn |-> arn, Properties |-> properties]

\* var notFound *cctypes.ResourceNotFoundException; errors.As(err, &notFound)
ReadIsNotFound(err) == ErrorsAs(err, "ResourceNotFoundException")

\* Variant: the absent resource gets an empty-but-present ARN
ReadNotFoundState_EmptyArn == WrittenState(BoolValue(FALSE), StringValue(""), DynamicNull)

\* The state Read writes for a resource that does not exist
ReadNotFoundState == WrittenState(BoolValue(FALSE), StringNull, DynamicNull)

\* Variant: the ARN is set even when none was found
ReadArn_AlwaysSet(arnValue) == StringValue(arnValue)

\* data.Arn for a resource that exists
ReadArn(arnValue) == IF arnValue # "" THEN StringValue(arnValue) ELSE StringNull

\* ProbeDataSource.Read: the request issued, the state written, the error
\* diagnostics added, and whether the call panicked
ProbeDataSource_Read(configOk, type, id, outcome) ==
    IF ~configOk
    THEN [requests |-> <<>>, state |-> NoState, diags |-> <<[summary |-> "config", detail |-> <<>>]>>, panic |-> FALSE]
    ELSE LET cloudControlType == resolveCloudControlType(type)
             requests == <<[TypeName |-> cloudControlType, Identifier |-> id]>>
         IN  IF outcome.err # NoErr
             THEN IF ReadIsNotFound(outcome.err)
                  THEN [requests |-> requests, state |-> ReadNotFoundState,
                        diags |-> <<>>, panic |-> FALSE]
                  ELSE [requests |-> requests, state |-> NoState,
                        diags |-> <<[summary |-> "Probe failed", detail |-> outcome.err.text]>>,
                        panic |-> FALSE]
             ELSE LET parsed == parsePropertiesToDynamic(outcome.Properties)
                      propsMap == parsePropertiesToMap(outcome.Properties)
                      arnValue == extractArn(propsMap)
                  IN  IF parsed.panic
                      THEN [requests |-> requests, state |-> NoState, diags |-> <<>>,
                            panic |-> TRUE]
                      ELSE IF parsed.diags # <<>>
                      THEN [requests |-> requests, state |-> NoState,
                            diags |-> parsed.diags, panic |-> FALSE]
                      ELSE [requests |-> requests,
                            state |-> WrittenState(BoolValue(TRUE), ReadArn(arnValue),
                                                   parsed.value),
                            diags |-> <<>>, panic |-> FALSE]

\* ------------------------------------------------------------------------
\* IAM policy simulation data source (part_005)
\* ------------------------------------------------------------------------

\* An optional attribute of the configuration: null, or holding a value
Null == [null |-> TRUE]
Some(v) == [null |-> FALSE, v |-> v]

\* Variant: both kinds of deny are rendered as "denied"
decisionToString_Denied(decision) ==
    IF decision = "allowed" THEN "allowed" ELSE "denied"

\* decisionToString; the iamtypes.PolicyEvaluationDecisionType values are the
\* strings "allowed", "explicitDeny" and "implicitDeny"
decisionToString(decision) ==
    IF decision = "allowed" THEN "allowed"
    ELSE IF decision = "explicitDeny" THEN "explicitDeny"
    ELSE IF decision = "implicitDeny" THEN "implicitDeny"
    ELSE decision

\* The cases of parseContextKeyType's switch: lower-cased tag -> ContextKeyTypeEnum
contextKeyTypes ==
    (<<"s","t","r","i","n","g">> :> "string")
    @@ (<<"s","t","r","i","n","g","l","i","s","t">> :> "stringList")
    @@ (<<"n","u","m","e","r","i","c">> :> "numeric")
    @@ (<<"n","u","m","e","r","i","c","l","i","s","t">> :> "numericList")
    @@ (<<"b","o","o","l","e","a","n">> :> "boolean")
    @@ (<<"b","o","o","l","e","a","n","l","i","s","t">> :> "booleanList")
    @@ (<<"d","a","t","e">> :> "date")
    @@ (<<"d","a","t","e","l","i","s","t">> :> "dateList")
    @@ (<<"i","p">> :> "ip")
    @@ (<<"i","p","l","i","s","t">> :> "ipList")
    @@ (<<"b","i","n","a","r","y">> :> "binary")
    @@ (<<"b","i","n","a","r","y","l","i","s","t">> :> "binaryList")

\* parseContextKeyType
\* Variant: the tag is compared without lower-casing it
parseContextKeyType_CaseSensitive(typeStr) ==
    IF typeStr \in DOMAIN contextKeyTypes
    THEN [value |-> contextKeyTypes[typeStr], err |-> FALSE]
    ELSE [value |-> "", err |-> TRUE]

parseContextKeyType(typeStr) ==
    IF ToLower(typeStr) \in DOMAIN contextKeyTypes
    THEN [value |-> contextKeyTypes[ToLower(typeStr)], err |-> FALSE]
    ELSE [value |-> "", err |-> TRUE]

matchedStatementAttrTypes ==
    [source_policy_id |-> StringType, source_policy_type |-> StringType]

simulationResultAttrTypes ==
    [action |-> StringType, resource_arn |-> StringType, allowed |-> BoolType,
     decision |-> StringType,
     matched_statements |-> ListType(ObjectType(matchedStatementAttrTypes)),
     missing_context_keys |-> ListType(StringType)]

\* A diagnostic of the simulation data source
SimDiag(summary) == <<[summary |-> summary]>>

\* The context entries converted for the request, from entry i on; the first
\* entry whose type tag is not recognised ends the conversion with an error
RECURSIVE buildContextEntries(_, _)
buildContextEntries(contextEntries, i) ==
    IF i > Len(contextEntries) THEN [entries |-> <<>>, err |-> FALSE]
    ELSE LET contextKeyType == parseContextKeyType(contextEntries[i].Type)
             rest == buildContextEntries(contextEntries, i + 1)
         IN  IF contextKeyType.err \/ rest.err THEN [entries |-> <<>>, err |-> TRUE]
             ELSE [entries |-> <<[ContextKeyName |-> contextEntries[i].Key,
                                  ContextKeyType |-> contextKeyType.value,
                                  ContextKeyValues |-> contextEntries[i].Values]>>
                                  \o rest.entries,
                   err |-> FALSE]

\* buildSimulationInput: the request built from the configuration, or diagnostics
buildSimulationInput(data) ==
    LET context == IF data.Context.null THEN [entries |-> <<>>, err |-> FALSE]
                   ELSE buildContextEntries(data.Context.v, 1)
    IN  IF context.err
        THEN [input |-> Null, diags |-> SimDiag("Invalid Context Key Type")]
        ELSE [input |-> Some(
                [PolicySourceArn |-> data.PolicySourceArn,
                 ActionNames |-> data.Actions,
                 ResourceArns |-> IF ~data.ResourceArns.null THEN data.ResourceArns.v
                                  ELSE <<"*">>,
                 CallerArn |-> data.CallerArn,
                 PolicyInputList |-> IF ~data.AdditionalPolicies.null
                                     THEN data.AdditionalPolicies.v ELSE <<>>,
                 PermissionsBoundaryPolicyInputList |->
                     IF ~data.PermissionsBoundaryPolicies.null
                     THEN data.PermissionsBoundaryPolicies.v ELSE <<>>,
                 ResourcePolicy |-> data.ResourcePolicy,
                 ContextEntries |-> context.entries]),
              diags |-> <<>>]

\* The object convertResults builds for one evaluation result
convertResult(result) ==
    ObjectValue(simulationResultAttrTypes,
        [action |-> StringValue(result.EvalActionName),
         resource_arn |-> StringValue(IF result.EvalResourceName # <<>>
                                      THEN result.EvalResourceName[1] ELSE "*"),
         allowed |-> BoolValue(result.EvalDecision = "allowed"),
         decision |-> StringValue(decisionToString(result.EvalDecision)),
         matched_statements |->
             ListValue(ObjectType(matchedStatementAttrTypes),
                 [i \in 1..Len(result.MatchedStatements) |->
                     ObjectValue(matchedStatementAttrTypes,
                         [source_policy_id |->
                              StringValue(result.MatchedStatements[i].SourcePolicyId),
                          source_policy_type |->
                              StringValue(result.MatchedStatements[i].SourcePolicyType)])]),
         missing_context_keys |->
             ListValue(StringType,
                 [i \in 1..Len(result.MissingContextValues) |->
                     StringValue(result.MissingContextValues[i])])])

\* convertResults
convertResults(results) ==
    IF Len(results) = 0 THEN ListNull(ObjectType(simulationResultAttrTypes))
    ELSE ListValue(ObjectType(simulationResultAttrTypes),
                   [i \in 1..Len(results) |-> convertResult(results[i])])

\* No failure of SimulatePrincipalPolicy; a failure is an API error with its
\* code, or no API error at all (errors.As finds no smithy.APIError)
NoSimErr == [api |-> FALSE, code |-> "nil"]

isNoSuchEntityError(err) == err.api /\ err.code = "NoSuchEntity"

\* Variant: only the code "AccessDeniedException" counts as access denied
isAccessDeniedError_Exception(err) == err.api /\ err.code = "AccessDeniedException"

isAccessDeniedError(err) == err.api /\ err.code = "AccessDenied"

\* Evaluation results the backend reports, by their action
EvaluationResults ==
    [GetObject |->
        [EvalActionName |-> "s3:GetObject", EvalDecision |-> "allowed",
         EvalResourceName |-> <<"arn:aws:s3:::b/k">>,
         MatchedStatements |-> <<[SourcePolicyId |-> "p1", SourcePolicyType |-> "IAM Policy"]>>,
         MissingContextValues |-> <<>>],
     PutObject |->
        [EvalActionName |-> "s3:PutObject", EvalDecision |-> "allowed",
         EvalResourceName |-> <<>>, MatchedStatements |-> <<>>,
         MissingContextValues |-> <<>>],
     DeleteObject |->
        [EvalActionName |-> "s3:DeleteObject", EvalDecision |-> "explicitDeny",
         EvalResourceName |-> <<"arn:aws:s3:::b/k">>,
         MatchedStatements |-> <<[SourcePolicyId |-> "p2", SourcePolicyType |-> "IAM Policy"]>>,
         MissingContextValues |-> <<>>],
     ListBucket |->
        [EvalActionName |-> "s3:ListBucket", EvalDecision |-> "implicitDeny",
         EvalResourceName |-> <<>>, MatchedStatements |-> <<>>,
         MissingContextValues |-> <<"aws:SourceIp">>]]

\* What the backend answers to the successive page requests: every page but
\* the last is a truncated success, the last is a success or a failure
PageScripts ==
    LET r == EvaluationResults
        pages == { <<>>, <<r.GetObject>>, <<r.DeleteObject>>,
                   <<r.GetObject, r.PutObject>>, <<r.PutObject, r.ListBucket>>,
                   <<r.ListBucket, r.GetObject>> }
        errors == { [api |-> TRUE, code |-> "NoSuchEntity"],
                    [api |-> TRUE, code |-> "AccessDenied"],
                    [api |-> TRUE, code |-> "Throttling"],
                    [api |-> FALSE, code |-> "RequestSendError"] }
        outcomes == { [err |-> NoSimErr, EvaluationResults |-> page] : page \in pages }
                        \cup { [err |-> e, EvaluationResults |-> <<>>] : e \in errors }
    IN  UNION { { script \in [1..n -> outcomes] :
                    \A i \in 1..(n - 1) : script[i].err = NoSimErr } : n \in 1..MaxPages }

\* The response state of the simulation data source: nothing written, or the
\* computed attributes as State.Set wrote them
SimNoState ==
    [written |-> FALSE, Allowed |-> BoolNull, Error |-> StringNull,
     Results |-> ListNull(ObjectType(simulationResultAttrTypes))]
SimWrittenState(allowed, error, results) ==
    [written |-> TRUE, Allowed |-> allowed, Error |-> error, Results |-> results]

\* for paginator.HasMorePages() { output, err := paginator.NextPage(ctx) ... }
\* from page i on: the requests made, the error that ended the loop and the
\* results appended so far
\* Variant: a page that fails is skipped and the loop goes on
RECURSIVE Paginate_SkipFailedPage(_, _, _)
Paginate_SkipFailedPage(script, i, allResults) ==
    IF i > Len(script)
    THEN [requests |-> i - 1, err |-> NoSimErr, allResults |-> allResults]
    ELSE Paginate_SkipFailedPage(script, i + 1,
                                 allResults \o script[i].EvaluationResults)

\* Variant: each page's results are put in front of the earlier ones
RECURSIVE Paginate_Prepend(_, _, _)
Paginate_Prepend(script, i, allResults) ==
    IF i > Len(script)
    THEN [requests |-> i - 1, err |-> NoSimErr, allResults |-> allResults]
    ELSE IF script[i].err # NoSimErr
    THEN [requests |-> i, err |-> script[i].err, allResults |-> allResults]
    ELSE Paginate_Prepend(script, i + 1, script[i].EvaluationResults \o allResults)

RECURSIVE Paginate(_, _, _)
Paginate(script, i, allResults) ==
    IF i > Len(script)
    THEN [requests |-> i - 1, err |-> NoSimErr, allResults |-> allResults]
    ELSE IF script[i].err # NoSimErr
    THEN [requests |-> i, err |-> script[i].err, allResults |-> allResults]
    ELSE Paginate(script, i + 1, allResults \o script[i].EvaluationResults)

\* Variant: one allowed result is enough
allAllowed_AnyAllowed(allResults) ==
    \E i \in 1..Len(allResults) :
        allResults[i].EvalDecision = "allowed"

\* allAllowed := true; for _, result := range allResults { if result.EvalDecision != ... }
allAllowed(allResults) ==
    \A i \in 1..Len(allResults) :
        allResults[i].EvalDecision = "allowed"

\* IamPolicySimulationDataSource.Read
IamPolicySimulationDataSource_Read(data, script) ==
    IF ~data.ok
    THEN [input |-> Null, requests |-> 0, state |-> SimNoState,
          diags |-> SimDiag("config")]
    ELSE LET built == buildSimulationInput(data)
         IN  IF built.diags # <<>>
             THEN [input |-> Null, requests |-> 0, state |-> SimNoState,
                   diags |-> built.diags]
             ELSE LET pages == Paginate(script, 1, <<>>)
                      noResults == ListNull(ObjectType(simulationResultAttrTypes))
                  IN  IF isNoSuchEntityError(pages.err)
                      THEN [input |-> built.input, requests |-> pages.requests,
                            state |-> SimWrittenState(BoolValue(FALSE),
                                        StringValue("principal not found: "
                                                        \o data.PolicySourceArn),
                                        noResults),
                            diags |-> <<>>]
                      ELSE IF isAccessDeniedError(pages.err)
                      THEN [input |-> built.input, requests |-> pages.requests,
                            state |-> SimWrittenState(BoolValue(FALSE),
                                        StringValue("access denied: caller lacks iam:SimulatePrincipalPolicy permission"),
                                        noResults),
                            diags |-> <<>>]
                      ELSE IF pages.err # NoSimErr
                      THEN [input |-> built.input, requests |-> pages.requests, state |-> SimNoState,
                            diags |-> SimDiag("IAM Policy Simulation Failed")]
                      ELSE [input |-> built.input, requests |-> pages.requests,
                            state |-> SimWrittenState(BoolValue(allAllowed(pages.allResults)),
                                                      StringNull,
                                                      convertResults(pages.allResults)),
                            diags |-> <<>>]

\* Configurations of the simulation data source: whether the framework could
\* decode the configuration, and the attributes given
SimConfigs ==
    LET resourceArnsInputs ==
            { Null, Some(<<>>), Some(<<"arn:aws:s3:::b/k", "arn:aws:s3:::b">>) }
        typeTags ==
            { <<"s","t","r","i","n","g">>,
              <<"s","t","r","i","n","g","L","i","s","t">>,
              <<"n","u","m","e","r","i","c">>,
              <<"n","u","m","e","r","i","c","L","i","s","t">>,
              <<"b","o","o","l","e","a","n">>,
              <<"b","o","o","l","e","a","n","L","i","s","t">>,
              <<"d","a","t","e">>,
              <<"d","a","t","e","L","i","s","t">>,
              <<"i","p">>,
              <<"i","p","L","i","s","t">>,
              <<"b","i","n","a","r","y">>,
              <<"b","i","n","a","r","y","L","i","s","t">>,
              <<"S","T","R","I","N","G">>,
              <<"S","T","R","I","N","G","L","I","S","T">>,
              <<"N","U","M","E","R","I","C">>,
              <<"N","U","M","E","R","I","C","L","I","S","T">>,
              <<"B","O","O","L","E","A","N">>,
              <<"B","O","O","L","E","A","N","L","I","S","T">>,
              <<"D","A","T","E">>,
              <<"D","A","T","E","L","I","S","T">>,
              <<"I","P">>,
              <<"I","P","L","I","S","T">>,
              <<"B","I","N","A","R","Y">>,
              <<"B","I","N","A","R","Y","L","I","S","T">>,
              <<"S","t","r","i","n","g","L","i","s","t">>,
              <<"I","p">> }
        otherTags ==
            { <<>>,
              <<"i","n","v","a","l","i","d">>,
              <<"s","t","r","i","n","g","_","l","i","s","t">>,
              <<"s","t","r","i","n","g","s">> }
        entry(key, type) == [Key |-> key, Type |-> type, Values |-> <<"10.0.0.1">>]
        contextInputs ==
            { Some(<<entry("aws:SourceIp", type)>>) : type \in typeTags \cup otherTags }
                \cup { Some(<<entry("aws:SourceIp", <<"i","p">>), entry("k", <<"t","e","x","t">>)>>),
                       Some(<<entry("aws:SourceIp", <<"i","p">>), entry("k", <<"S","t","r","i","n","g","L","i","s","t">>)>>) }
        attributes ==
            { <<resourceArns, Null>> : resourceArns \in resourceArnsInputs }
                \cup { <<Null, context>> : context \in contextInputs }
    IN  { [ok |-> ok, PolicySourceArn |-> "arn:aws:iam::1:role/r",
           Actions |-> <<"s3:GetObject", "s3:PutObject">>,
           ResourceArns |-> a[1], Context |-> a[2],
           CallerArn |-> Null, AdditionalPolicies |-> Null,
           PermissionsBoundaryPolicies |-> Null, ResourcePolicy |-> Null] :
            ok \in BOOLEAN, a \in attributes }

\* ------------------------------------------------------------------------
\* Provider configuration (provider.go) and the data sources' Configure
\* ------------------------------------------------------------------------
\* A nil interface value handed over as ProviderData
NilProviderData == [type |-> "nil"]

\* detectLocalStack: GET http://localhost:4566/_localstack/health fails, or
\* answers with a status code
detectLocalStack(health) ==
    IF health = "error" THEN [detected |-> FALSE, endpoint |-> ""]
    ELSE IF health = "200" THEN [detected |-> TRUE, endpoint |-> "http://localhost:4566"]
    ELSE [detected |-> FALSE, endpoint |-> ""]

\* ProbeProvider.Configure
ProbeProvider_Configure(data, env) ==
    IF ~env.configOk
    THEN [detection |-> FALSE, useLocalStack |-> FALSE, endpoint |-> "",
          DataSourceData |-> NilProviderData, diags |-> SimDiag("config")]
    ELSE LET region ==
                 IF ~data.Region.null THEN data.Region.v
                 ELSE IF env.AWS_REGION # "" THEN env.AWS_REGION
                 ELSE IF env.AWS_DEFAULT_REGION # "" THEN env.AWS_DEFAULT_REGION
                 ELSE "us-east-1"
             detection == data.Endpoint.null /\ data.LocalStack.null
             found == detectLocalStack(env.health)
             useLocalStack ==
                 IF ~data.Endpoint.null THEN TRUE
                 ELSE IF ~data.LocalStack.null THEN data.LocalStack.v
                 ELSE found.detected
             endpoint ==
                 IF ~data.Endpoint.null THEN data.Endpoint.v
                 ELSE IF ~data.LocalStack.null
                 THEN IF useLocalStack THEN "http://localhost:4566" ELSE ""
                 ELSE found.endpoint
             cfg == [type |-> "aws.Config", Region |-> region,
                     BaseEndpoint |-> IF useLocalStack THEN Some(endpoint) ELSE Null,
                     Credentials |-> IF useLocalStack /\ ~env.credentials
                                     THEN "static test" ELSE "default"]
         IN  IF env.loadErr
             THEN [detection |-> detection, useLocalStack |-> useLocalStack,
                   endpoint |-> endpoint, DataSourceData |-> NilProviderData,
                   diags |-> SimDiag("Unable to load AWS configuration")]
             ELSE [detection |-> detection, useLocalStack |-> useLocalStack,
                   endpoint |-> endpoint, DataSourceData |-> cfg, diags |-> <<>>]

\* ProbeProvider.DataSources: the data sources the provider registers
DataSources == {"probe"}

\* ProbeDataSource.Configure
ProbeDataSource_Configure(ProviderData) ==
    IF ProviderData.type = "nil" THEN [client |-> "nil", diags |-> <<>>]
    ELSE IF ProviderData.type # "*cloudcontrol.Client"
    THEN [client |-> "nil", diags |-> SimDiag("Unexpected Data Source Configure Type")]
    ELSE [client |-> ProviderData.type, diags |-> <<>>]

\* IamPolicySimulationDataSource.Configure
IamPolicySimulationDataSource_Configure(ProviderData) ==
    IF ProviderData.type = "nil" THEN [client |-> "nil", diags |-> <<>>]
    ELSE IF ProviderData.type # "aws.Config"
    THEN [client |-> "nil", diags |-> SimDiag("Unexpected Data Source Configure Type")]
    ELSE [client |-> ProviderData.type, diags |-> <<>>]

\* The provider blocks Configure is called with
ProviderConfigs ==
    [LocalStack : {Null, Some(TRUE), Some(FALSE)},
     Endpoint : {Null, Some("http://custom:4566")},
     Region : {Null, Some("us-west-2")}]

VARIABLES
    probers,      \* ProberRegistry.probers: canonical key -> prober instance
    constructed,  \* the factory invocations so far: instance i was built for constructed[i]
    returned,     \* pairs <<canonical key, instance>> handed out by successful GetProber calls
    gp,           \* outcome of the most recent GetProber call
    pr,           \* the most recent Probe call: its inputs, backend responses and outcome
    rd,           \* the most recent ProbeDataSource.Read call and its response
    sim,          \* the most recent IamPolicySimulationDataSource.Read call and its response
    fc,           \* one application of a helper function: its argument and its result
    cc,           \* GetProber calls running as goroutines on one shared registry
    pv            \* the most recent ProbeProvider.Configure call and the data source
                  \* Configure call that followed it

vars == <<probers, constructed, returned, gp, pr, rd, sim, fc, cc, pv>>

NoProber == 0        \* a nil ResourceProber
NoError == <<>>      \* a nil error

GpNone ==
    [called |-> FALSE, raw |-> <<>>, canonical |-> <<>>, prober |-> NoProber,
     err |-> NoError, before |-> <<>>]

PrNone ==
    [called |-> FALSE, prober |-> "none", identifier |-> <<>>, lookup |-> NoErr,
     lookupArn |-> <<>>, tagging |-> NoTagging, requests |-> <<>>,
     result |-> NilResult, err |-> NoErr]

RdNone ==
    [called |-> FALSE, type |-> <<>>, id |-> <<>>, lookup |-> NoErr,
     properties |-> NoPayload, requests |-> <<>>, state |-> NoState, diags |-> <<>>, panic |-> FALSE]

\* Neither the provider nor a data source has been configured
PvNone ==
    [called |-> FALSE, data |-> [LocalStack |-> Null, Endpoint |-> Null, Region |-> Null],
     health |-> "none", detection |-> FALSE, useLocalStack |-> FALSE, endpoint |-> "",
     DataSourceData |-> NilProviderData, diags |-> <<>>,
     dataSource |-> "none", registered |-> FALSE, client |-> "nil", dsDiags |-> <<>>]

\* No simulation Read has been called
SimNone ==
    [called |-> FALSE, data |-> Null, script |-> <<>>, input |-> Null, requests |-> 0,
     state |-> SimNoState, diags |-> <<>>]

\* The goroutines that may call GetProber on the shared registry
Goroutines == 1..MaxGoroutines

\* No goroutine has called GetProber; the runtime has reported nothing
CcInit ==
    [calls |-> [g \in Goroutines |->
                  [pc |-> "ready", raw |-> <<>>, canonical |-> <<>>, built |-> NoProber,
                   prober |-> NoProber, err |-> NoError]],
     raced |-> FALSE, fatal |-> FALSE]

\* NewProberRegistry
Init ==
    /\ probers = <<>>
    /\ constructed = <<>>
    /\ returned = {}
    /\ gp = GpNone
    /\ pr = PrNone
    /\ rd = RdNone
    /\ sim = SimNone
    /\ fc = [fn |-> "none", applied |-> FALSE]
    /\ cc = CcInit
    /\ pv = PvNone

\* ProberRegistry.SupportedTypes: the canonical keys that have a factory (the
\* code lists them in map iteration order, which is left open here)
SupportedTypes ==
    { normalizedTypes[t] : t \in DOMAIN normalizedTypes } \cap DOMAIN proberFactories

\* fmt.Errorf("unsupported resource type: %s", resourceType)
UnsupportedTypeError(resourceType) ==
    <<"u","n","s","u","p","p","o","r","t","e","d"," ","r","e","s","o","u","r","c","e"," ","t","y","p","e",":"," ">>
        \o resourceType

\* Variant: the cache is keyed by the raw type string
GetProber_CacheByRaw(resourceType) ==
    LET canonicalType == normalizeTypeName(resourceType)
        call == [called |-> TRUE, raw |-> resourceType, canonical |-> canonicalType,
                 before |-> probers]
    IN  IF resourceType \in DOMAIN probers
        THEN /\ gp' = call @@ [prober |-> probers[resourceType], err |-> NoError]
             /\ returned' = returned \cup {<<canonicalType, probers[resourceType]>>}
             /\ UNCHANGED <<probers, constructed>>
        ELSE IF canonicalType \notin DOMAIN proberFactories
        THEN /\ gp' = call @@ [prober |-> NoProber, err |-> UnsupportedTypeError(resourceType)]
             /\ UNCHANGED <<probers, constructed, returned>>
        ELSE /\ Len(constructed) < MaxInstances
             /\ LET prober == Len(constructed) + 1
                IN  /\ constructed' = Append(constructed, canonicalType)
                    /\ probers' = probers @@ (resourceType :> prober)
                    /\ returned' = returned \cup {<<canonicalType, prober>>}
                    /\ gp' = call @@ [prober |-> prober, err |-> NoError]

\* Variant: a type without a factory falls back to the DynamoDB prober
GetProber_Fallback(resourceType) ==
    LET canonicalType == normalizeTypeName(resourceType)
        call == [called |-> TRUE, raw |-> resourceType, canonical |-> canonicalType,
                 before |-> probers]
    IN  IF canonicalType \in DOMAIN probers
        THEN /\ gp' = call @@ [prober |-> probers[canonicalType], err |-> NoError]
             /\ returned' = returned \cup {<<canonicalType, probers[canonicalType]>>}
             /\ UNCHANGED <<probers, constructed>>
        ELSE /\ Len(constructed) < MaxInstances
             /\ LET prober == Len(constructed) + 1
                IN  /\ constructed' = Append(constructed, canonicalType)
                    /\ probers' = probers @@ (canonicalType :> prober)
                    /\ returned' = returned \cup {<<canonicalType, prober>>}
                    /\ gp' = call @@ [prober |-> prober, err |-> NoError]

\* ProberRegistry.GetProber
GetProber(resourceType) ==
    LET canonicalType == normalizeTypeName(resourceType)
        call == [called |-> TRUE, raw |-> resourceType, canonical |-> canonicalType,
                 before |-> probers]
    IN  IF canonicalType \in DOMAIN probers
        THEN /\ gp' = call @@ [prober |-> probers[canonicalType], err |-> NoError]
             /\ returned' = returned \cup {<<canonicalType, probers[canonicalType]>>}
             /\ UNCHANGED <<probers, constructed>>
        ELSE IF canonicalType \notin DOMAIN proberFactories
        THEN /\ gp' = call @@ [prober |-> NoProber, err |-> UnsupportedTypeError(resourceType)]
             /\ UNCHANGED <<probers, constructed, returned>>
        ELSE /\ Len(constructed) < MaxInstances
             /\ LET prober == Len(constructed) + 1
                IN  /\ constructed' = Append(constructed, canonicalType)
                    /\ probers' = probers @@ (canonicalType :> prober)
                    /\ returned' = returned \cup {<<canonicalType, prober>>}
                    /\ gp' = call @@ [prober |-> prober, err |-> NoError]

\* No call is in progress: the caller has taken the last outcome
Idle ==
    /\ ~gp.called /\ ~pr.called /\ ~rd.called /\ ~sim.called
    /\ ~pv.called /\ pv.dataSource = "none"

DoGetProber ==
    /\ Idle
    /\ \E resourceType \in TypeInputs : GetProber(resourceType)
    /\ UNCHANGED <<pr, rd, sim, fc, cc, pv>>

IsIssued(requests, name) == \E i \in 1..Len(requests) : requests[i] = name

\* A Probe call on the DynamoDB prober; the backend answers the requests issued
DynamoDBProbe ==
    /\ Idle
    /\ \E identifier \in Identifiers :
        \E describe \in DescribeOutcomes(identifier) :
          \E tagging \in
               IF IsIssued(DynamoDBProber_Probe(identifier, describe, NoTagging).requests,
                           "ListTagsOfResource")
               THEN TagOutcomes ELSE {NoTagging} :
            LET out == DynamoDBProber_Probe(identifier, describe, tagging)
            IN  pr' = [called |-> TRUE, prober |-> "DynamoDBProber",
                       identifier |-> identifier, lookup |-> describe.err,
                       lookupArn |-> IF describe.err = NoErr
                                     THEN describe.Table.TableArn ELSE <<>>,
                       tagging |-> tagging, requests |-> out.requests,
                       result |-> out.result, err |-> out.err]
    /\ UNCHANGED <<probers, constructed, returned, gp, rd, sim, fc, cc, pv>>

\* A Probe call on the S3 prober; the backend answers the requests issued
S3Probe ==
    /\ Idle
    /\ \E identifier \in Identifiers :
        \E head \in HeadBucketOutcomes(identifier) :
          LET issued == S3Prober_Probe(identifier, head, NoLocation, NoTagging).requests
          IN  \E location \in
                    IF IsIssued(issued, "GetBucketLocation")
                    THEN LocationOutcomes ELSE {NoLocation},
                 tagging \in
                    IF IsIssued(issued, "GetBucketTagging")
                    THEN TagOutcomes ELSE {NoTagging} :
                LET out == S3Prober_Probe(identifier, head, location, tagging)
                IN  pr' = [called |-> TRUE, prober |-> "S3Prober",
                           identifier |-> identifier, lookup |-> head,
                           lookupArn |-> <<>>,
                           tagging |-> tagging, requests |-> out.requests,
                           result |-> out.result, err |-> out.err]
    /\ UNCHANGED <<probers, constructed, returned, gp, rd, sim, fc, cc, pv>>

\* A Read call on the probe data source; the backend answers the request issued
Read ==
    /\ Idle
    /\ \E configOk \in BOOLEAN, type \in ReadTypeInputs, id \in Identifiers :
        \E outcome \in IF configOk THEN GetResourceOutcomes(id)
                                   ELSE {[err |-> NoErr, Properties |-> NoPayload]} :
            LET out == ProbeDataSource_Read(configOk, type, id, outcome)
            IN  rd' = [called |-> TRUE, type |-> type, id |-> id, lookup |-> outcome.err,
                       properties |-> outcome.Properties,
                       requests |-> out.requests, state |-> out.state,
                       diags |-> out.diags, panic |-> out.panic]
    /\ UNCHANGED <<probers, constructed, returned, gp, pr, sim, fc, cc, pv>>

\* A Read call on the simulation data source; the backend answers the page
\* requests issued
SimRead ==
    /\ Idle
    /\ \E data \in SimConfigs :
        \E script \in IF data.ok /\ buildSimulationInput(data).diags = <<>>
                       THEN PageScripts ELSE {<<>>} :
            LET out == IamPolicySimulationDataSource_Read(data, script)
            IN  sim' = [called |-> TRUE, data |-> data, script |-> script,
                        input |-> out.input,
                        requests |-> out.requests, state |-> out.state,
                        diags |-> out.diags]
    /\ UNCHANGED <<probers, constructed, returned, gp, pr, rd, fc, cc, pv>>

\* The caller takes the outcome of the finished call; the registry keeps its cache
\* The host calls ProbeProvider.Configure with the provider block; the
\* environment supplies the region variables, the answer of the LocalStack
\* health endpoint when it is asked, and the credential chain
Configure ==
    /\ Idle
    /\ \E data \in ProviderConfigs, configOk \in BOOLEAN, loadErr \in BOOLEAN,
          AWS_REGION \in {"", "eu-west-1"}, AWS_DEFAULT_REGION \in {"", "ap-south-1"} :
        \E health \in IF configOk /\ data.Endpoint.null /\ data.LocalStack.null
                       THEN {"error", "200", "503"} ELSE {"none"},
           credentials \in BOOLEAN :
            LET out == ProbeProvider_Configure(data,
                           [configOk |-> configOk, loadErr |-> loadErr,
                            AWS_REGION |-> AWS_REGION,
                            AWS_DEFAULT_REGION |-> AWS_DEFAULT_REGION,
                            health |-> health, credentials |-> credentials])
            IN  pv' = [called |-> TRUE, data |-> data, health |-> health,
                       detection |-> out.detection, useLocalStack |-> out.useLocalStack,
                       endpoint |-> out.endpoint, DataSourceData |-> out.DataSourceData,
                       diags |-> out.diags,
                       dataSource |-> "none", registered |-> FALSE,
                       client |-> "nil", dsDiags |-> <<>>]
    /\ UNCHANGED <<probers, constructed, returned, gp, pr, rd, sim, fc, cc>>

\* The host calls a data source's Configure with the provider data: nil
\* before the provider is configured, afterwards the value that a Configure
\* without error diagnostics published
DataSourceConfigure ==
    /\ ~gp.called /\ ~pr.called /\ ~rd.called /\ ~sim.called
    /\ pv.dataSource = "none"
    /\ pv.diags = <<>>
    /\ \E ds \in {"probe", "probe_iam_policy_simulation"} :
        LET out == IF ds = "probe"
                   THEN ProbeDataSource_Configure(pv.DataSourceData)
                   ELSE IamPolicySimulationDataSource_Configure(pv.DataSourceData)
        IN  pv' = [pv EXCEPT !.dataSource = ds, !.registered = ds \in DataSources,
                             !.client = out.client,
                             !.dsDiags = out.diags]
    /\ UNCHANGED <<probers, constructed, returned, gp, pr, rd, sim, fc, cc>>

Return ==
    /\ ~Idle
    /\ gp' = GpNone
    /\ pr' = PrNone
    /\ rd' = RdNone
    /\ sim' = SimNone
    /\ pv' = PvNone
    /\ UNCHANGED <<probers, constructed, returned, fc, cc>>

Next ==
    \/ DoGetProber \/ DynamoDBProbe \/ S3Probe \/ Read \/ SimRead
    \/ Configure \/ DataSourceConfigure
    \/ Return

Spec == Init /\ [][Next]_vars

\* ---------------------------------------------------------------------------
\* GetProber called from several goroutines on one registry.  The registry
\* struct holds cfg and the probers map and nothing else: each statement of
\* GetProber is a step of its own, and the map assignment, which the Go
\* runtime does not perform atomically, lasts from GoBeginInsert to GoEndInsert.
\* ---------------------------------------------------------------------------

\* Another goroutine is inside the assignment r.probers[canonicalType] = prober
OtherInserting(g) == \E h \in Goroutines \ {g} : cc.calls[h].pc = "inserting"

\* canonicalType := normalizeTypeName(resourceType)
GoCall ==
    /\ ~cc.fatal
    /\ \E g \in Goroutines,
          resourceType \in { <<"a","w","s","_","d","y","n","a","m","o","d","b","_","t","a","b","l","e">>,
                             <<"d","y","n","a","m","o","d","b","_","t","a","b","l","e">>,
                             <<"A","W","S",":",":","S","3",":",":","B","u","c","k","e","t">>,
                             <<"a","w","s","_","l","a","m","b","d","a","_","f","u","n","c","t","i","o","n">> } :
        /\ cc.calls[g].pc = "ready"
        /\ cc' = [cc EXCEPT !.calls[g] =
                     [@ EXCEPT !.pc = "lookup", !.raw = resourceType,
                               !.canonical = normalizeTypeName(resourceType)]]
    /\ UNCHANGED <<probers, constructed, returned, gp, pr, rd, sim, fc, pv>>

\* if prober, ok := r.probers[canonicalType]; ok { return prober, nil }
\* factory, ok := proberFactories[canonicalType]; if !ok { return nil, err }
\* A read that overlaps another goroutine's assignment is a data race: the
\* runtime may stop the process ("concurrent map read and map write") or the
\* read may see the map before or after that assignment.
GoLookup ==
    /\ ~cc.fatal
    /\ \E g \in Goroutines :
        LET call == cc.calls[g]
            inserting == { h \in Goroutines \ {g} : cc.calls[h].pc = "inserting" }
            mapsSeen == {probers} \cup
                        { (cc.calls[h].canonical :> cc.calls[h].built) @@ probers :
                            h \in inserting }
            after(seen) ==
                IF call.canonical \in DOMAIN seen
                THEN [call EXCEPT !.pc = "done", !.prober = seen[call.canonical]]
                ELSE IF call.canonical \notin DOMAIN proberFactories
                THEN [call EXCEPT !.pc = "done", !.err = UnsupportedTypeError(call.raw)]
                ELSE [call EXCEPT !.pc = "factory"]
        IN  /\ call.pc = "lookup"
            /\ \/ \E seen \in mapsSeen :
                      /\ cc' = [cc EXCEPT !.calls[g] = after(seen),
                                             !.raced = @ \/ OtherInserting(g)]
                      /\ returned' = IF after(seen).prober # NoProber
                                     THEN returned \cup {<<call.canonical, after(seen).prober>>}
                                     ELSE returned
               \/ /\ OtherInserting(g)
                  /\ cc' = [cc EXCEPT !.raced = TRUE, !.fatal = TRUE]
                  /\ UNCHANGED returned
    /\ UNCHANGED <<probers, constructed, gp, pr, rd, sim, fc, pv>>

\* prober := factory(r.cfg)
GoFactory ==
    /\ ~cc.fatal
    /\ \E g \in Goroutines :
        /\ cc.calls[g].pc = "factory"
        /\ Len(constructed) < MaxInstances
        /\ constructed' = Append(constructed, cc.calls[g].canonical)
        /\ cc' = [cc EXCEPT !.calls[g] =
                     [@ EXCEPT !.pc = "insert", !.built = Len(constructed) + 1]]
    /\ UNCHANGED <<probers, returned, gp, pr, rd, sim, fc, pv>>

\* r.probers[canonicalType] = prober begins.  An assignment that overlaps another
\* goroutine's assignment is a data race: the runtime may stop the process
\* ("concurrent map writes") or let both go on.
GoBeginInsert ==
    /\ ~cc.fatal
    /\ \E g \in Goroutines :
        /\ cc.calls[g].pc = "insert"
        /\ \/ cc' = [cc EXCEPT !.calls[g].pc = "inserting",
                               !.raced = @ \/ OtherInserting(g)]
           \/ /\ OtherInserting(g)
              /\ cc' = [cc EXCEPT !.raced = TRUE, !.fatal = TRUE]
    /\ UNCHANGED <<probers, constructed, returned, gp, pr, rd, sim, fc, pv>>

\* r.probers[canonicalType] = prober ends; return prober, nil
GoEndInsert ==
    /\ ~cc.fatal
    /\ \E g \in Goroutines :
        /\ cc.calls[g].pc = "inserting"
        /\ probers' = (cc.calls[g].canonical :> cc.calls[g].built) @@ probers
        /\ returned' = returned \cup {<<cc.calls[g].canonical, cc.calls[g].built>>}
        /\ cc' = [cc EXCEPT !.calls[g] =
                     [@ EXCEPT !.pc = "done", !.prober = cc.calls[g].built]]
    /\ UNCHANGED <<constructed, gp, pr, rd, sim, fc, pv>>

NextConc == GoCall \/ GoLookup \/ GoFactory \/ GoBeginInsert \/ GoEndInsert

SpecConc == Init /\ [][NextConc]_vars

\* ---------------------------------------------------------------------------
\* The helper functions applied to one argument: fc holds the argument, the
\* result, and for the name resolvers the result of applying the function to
\* its own result.
\* ---------------------------------------------------------------------------

\* The arguments the helper functions are applied to.  Type strings: the
\* table entries, Cloud Control names, unknown names and malformed ones.
\* Property maps: identity fields holding strings, empty strings and other
\* values, a differently-cased name and a nested map.  Values to convert:
\* JSON-decoded scalars, lists and maps of them, lists and maps of those, a few
\* deeper ones, and Go values json.Unmarshal never produces (int, int64,
\* map[string]string, a struct with one int field).
FcInputs ==
    LET scalars == { JNull, JString("a"), JFloat64(1), JBool(TRUE) }
        inner == { JNull, JString("a"), JFloat64(1),
                   JList(<<>>), JList(<<JString("a")>>), JList(<<JFloat64(1)>>),
                   JMap(<<>>), JMap([k |-> JString("a")]), JMap([j |-> JFloat64(1)]) }
        listsOf(elems) ==
            { JList(l) : l \in UNION { [1..n -> elems] : n \in 0..MaxListLen } }
        mapsOf(elems) ==
            { JMap(a @@ b) : a \in { <<>> } \cup { [p |-> e] : e \in elems },
                             b \in { <<>> } \cup { [q |-> e] : e \in elems } }
        deep == { JList(<<JList(<<JList(<<>>)>>)>>),
                  JMap([p |-> JMap([q |-> JMap(<<>>)])]),
                  JMap([p |-> JList(<<JMap([q |-> JList(<<>>)])>>)]),
                  JMap([p |-> JList(<<>>), q |-> JMap([k |-> JMap(<<>>)])]) }
        hostValues ==
            { [int |-> 42], [int |-> 0], [int |-> 0 - 7], [int64 |-> 99999],
              [struct |-> 123], [stringmap |-> <<>>],
              [stringmap |-> [Environment |-> "test"]],
              [stringmap |-> [Environment |-> "test", Owner |-> "probe"]] }
        arnMaps ==
            { a @@ b @@ c @@ d @@ e :
                a \in { <<>> } \cup { [Arn |-> v] :
                          v \in { JString(""), JString("arn:generic"), JFloat64(12345) } },
                b \in { <<>> } \cup { [TableArn |-> v] :
                          v \in { JString(""), JString("arn:table"), JBool(TRUE) } },
                c \in { <<>>, [VpcId |-> JString("vpc-1")] },
                d \in { <<>>, [arn |-> JString("lowercase-arn")] },
                e \in { <<>>, [nested |-> JMap([Arn |-> JString("arn:nested")])] } }
    IN  [normalizeTypeName |->
            TypeInputs \cup
            { <<"A","W","S",":",":","D","y","n","a","m","o","D","B",":",":","t","a","b","l","e">>,
              <<"A","W","S",":",":","D","Y","N","A","M","O","D","B",":",":","T","A","B","L","E">>,
              <<"A","W","S",":",":",":",":","T","a","b","l","e">>,
              <<"a","w","s","_">>,
              <<"s","o","m","e","_","r","a","n","d","o","m","_","t","y","p","e">> },
         resolveCloudControlType |->
            DOMAIN tfToCloudControl \cup
            { <<"A","W","S",":",":","D","y","n","a","m","o","D","B",":",":","T","a","b","l","e">>,
              <<"A","W","S",":",":","M","y","C","o","m","p","a","n","y",":",":","C","u","s","t","o","m","R","e","s","o","u","r","c","e">>,
              <<"a","w","s","_","u","n","k","n","o","w","n","_","r","e","s","o","u","r","c","e">>,
              <<"s","o","m","e","_","r","a","n","d","o","m","_","t","y","p","e">>,
              <<>>,
              <<"A","W","S",":",":">>,
              <<"a","w","s",":",":","D","y","n","a","m","o","D","B",":",":","T","a","b","l","e">>,
              <<"A","w","s","_","d","y","n","a","m","o","d","b","_","t","a","b","l","e">>,
              <<"A","W","S","_","D","Y","N","A","M","O","D","B","_","T","A","B","L","E">> },
         extractArn |-> { NilMap } \cup { MakeMap(m) : m \in arnMaps },
         convertToAttrValue |->
            scalars \cup listsOf(scalars) \cup mapsOf(scalars)
                \cup listsOf(inner) \cup mapsOf(inner) \cup deep \cup hostValues]

\* A call of a helper function that has its argument and has not run yet
FcCall(fn, arg) == [fn |-> fn, arg |-> arg, applied |-> 0, out |-> <<>>, twice |-> <<>>]

\* normalizeTypeName(fc.arg), and then normalizeTypeName of that result
ApplyNormalizeTypeName ==
    /\ fc.fn = "normalizeTypeName"
    /\ fc.applied < 2
    /\ fc' = IF fc.applied = 0
             THEN [fc EXCEPT !.applied = 1, !.out = normalizeTypeName(fc.arg)]
             ELSE [fc EXCEPT !.applied = 2, !.twice = normalizeTypeName(fc.out)]
    /\ UNCHANGED <<probers, constructed, returned, gp, pr, rd, sim, cc, pv>>

\* resolveCloudControlType(fc.arg), and then resolveCloudControlType of that result
ApplyResolveCloudControlType ==
    /\ fc.fn = "resolveCloudControlType"
    /\ fc.applied < 2
    /\ fc' = IF fc.applied = 0
             THEN [fc EXCEPT !.applied = 1, !.out = resolveCloudControlType(fc.arg)]
             ELSE [fc EXCEPT !.applied = 2, !.twice = resolveCloudControlType(fc.out)]
    /\ UNCHANGED <<probers, constructed, returned, gp, pr, rd, sim, cc, pv>>

\* extractArn(fc.arg)
ApplyExtractArn ==
    /\ fc.fn = "extractArn"
    /\ fc.applied = 0
    /\ fc' = [fc EXCEPT !.applied = 1, !.out = extractArn(fc.arg)]
    /\ UNCHANGED <<probers, constructed, returned, gp, pr, rd, sim, cc, pv>>

\* convertToAttrValue(fc.arg)
ApplyConvertToAttrValue ==
    /\ fc.fn = "convertToAttrValue"
    /\ fc.applied = 0
    /\ fc' = [fc EXCEPT !.applied = 1, !.out = convertToAttrValue(fc.arg)]
    /\ UNCHANGED <<probers, constructed, returned, gp, pr, rd, sim, cc, pv>>

\* A helper function is about to be applied to one argument
InitFn ==
    /\ probers = <<>>
    /\ constructed = <<>>
    /\ returned = {}
    /\ gp = GpNone
    /\ pr = PrNone
    /\ rd = RdNone
    /\ sim = SimNone
    /\ cc = CcInit
    /\ pv = PvNone
    /\ \E fn \in DOMAIN FcInputs : \E arg \in FcInputs[fn] : fc = FcCall(fn, arg)

NextFn ==
    \/ ApplyNormalizeTypeName
    \/ ApplyResolveCloudControlType
    \/ ApplyExtractArn
    \/ ApplyConvertToAttrValue

SpecFn == InitFn /\ [][NextFn]_vars

\* ------------------------------------------------------------------------
\* Properties
\* ------------------------------------------------------------------------
LookupFailed(err) == err # NoErr

\* C1: whenever GetResource fails with the typed ResourceNotFoundException,
\* Read writes state with exists=false, arn=null and properties=null and adds
\* no error diagnostic, for every type and id.
C1_NotFoundWritesAbsentState ==
    (rd.called /\ ErrorsAs(rd.lookup, "ResourceNotFoundException"))
        => /\ rd.state.written
           /\ rd.state.Exists = BoolValue(FALSE)
           /\ rd.state.Arn = StringNull
           /\ rd.state.Properties = DynamicNull
           /\ rd.diags = <<>>
           /\ ~rd.panic

C1_Witness ==
    /\ rd.called
    /\ ErrorsAs(rd.lookup, "ResourceNotFoundException")
    /\ rd.id = <<>>
    /\ rd.state.written

\* C2: for DynamoDBProber.Probe and ProbeDataSource.Read, a lookup failure
\* that is not the typed not-found error (permission denied, throttling,
\* network failure, cancellation) is propagated as an error (returned error,
\* or error diagnostic with no state written) and never gives exists=false.
C2_OtherFailuresPropagate ==
    /\ (/\ pr.called
        /\ pr.prober = "DynamoDBProber"
        /\ LookupFailed(pr.lookup)
        /\ pr.lookup.type # "ResourceNotFoundException")
           => (pr.err = pr.lookup /\ pr.result.nil)
    /\ (/\ rd.called
        /\ LookupFailed(rd.lookup)
        /\ rd.lookup.type # "ResourceNotFoundException")
           => /\ ~rd.state.written
              /\ Len(rd.diags) = 1
              /\ rd.diags[1].detail = rd.lookup.text

C2_Witness ==
    /\ pr.called
    /\ pr.prober = "DynamoDBProber"
    /\ pr.lookup.type = "ContextCanceled"
    /\ pr.err = pr.lookup

\* C3: S3Prober.Probe returns a fatal error, never ProbeResult{Exists:false},
\* whenever HeadBucket fails with a permission error (403 Forbidden), for
\* every bucket identifier and every text the error carries.
C3_S3PermissionErrorIsFatal ==
    (pr.called /\ pr.prober = "S3Prober" /\ pr.lookup.type \in PermissionErrTypes)
        => (pr.err # NoErr /\ pr.result.nil)

\* C4: for both probers, a Probe call that ends with Exists=false returns a
\* nil error and a result whose Arn is empty and whose Properties and Tags
\* are nil, for every identifier including the empty string.
C4_NotFoundResultIsBare ==
    (pr.called /\ ~pr.result.nil /\ ~pr.result.Exists)
        => /\ pr.err = NoErr
           /\ pr.result.Arn = <<>>
           /\ pr.result.Properties.nil
           /\ pr.result.Tags.nil

C4_Witness ==
    /\ pr.called
    /\ ~pr.result.nil
    /\ ~pr.result.Exists
    /\ pr.identifier = <<>>

\* C5 as stated: in every state written by Read, arn is non-null if and only
\* if exists is true.
C5_ArnIffExists ==
    rd.state.written => ((rd.state.Arn # StringNull) <=> (rd.state.Exists = BoolValue(TRUE)))

\* C5 amended: in every state written by Read, a non-null arn implies
\* exists=true, and when exists is true the arn is non-null exactly when one
\* of the arnFields holds a non-empty string at the top level of the
\* properties.
C5_ArnImpliesExists ==
    rd.state.written
        => /\ (rd.state.Arn # StringNull) => (rd.state.Exists = BoolValue(TRUE))
           /\ (rd.state.Exists = BoolValue(TRUE))
                 => ((rd.state.Arn # StringNull)
                        <=> \E i \in 1..Len(arnFields) :
                               HasArnAt(rd.properties.props, arnFields[i]))

C5_Witness ==
    /\ rd.state.written
    /\ rd.state.Exists = BoolValue(TRUE)
    /\ rd.state.Arn = StringNull
    /\ rd.properties.json = "object"

\* C6 as stated: one Probe call issues exactly one lookup request and at most
\* one further (tag-listing) request, never more than two requests, and no
\* further request after a failed lookup.
LookupRequests == {"DescribeTable", "HeadBucket"}
TagRequests == {"ListTagsOfResource", "GetBucketTagging"}
C7_TagFailureIsNotFatal ==
    (pr.called /\ ~LookupFailed(pr.lookup))
        => /\ pr.err = NoErr
           /\ ~pr.result.nil
           /\ pr.result.Exists
           /\ ~pr.result.Properties.nil
           /\ (~pr.result.Tags.nil \/ "Tags" \in DOMAIN pr.result.Properties.m)
                 => /\ pr.tagging.issued
                    /\ pr.tagging.ok
                    /\ Len(pr.tagging.Tags) >= 1
                    /\ ~pr.result.Tags.nil
                    /\ DOMAIN pr.result.Tags.m # {}
                    /\ "Tags" \in DOMAIN pr.result.Properties.m
                    /\ pr.result.Properties.m["Tags"] = pr.result.Tags

C7_Witness ==
    /\ pr.called
    /\ ~LookupFailed(pr.lookup)
    /\ pr.tagging.issued
    /\ ~pr.tagging.ok
    /\ pr.result.Exists
    /\ pr.result.Tags.nil

\* C8: on one registry, every successful GetProber call whose input
\* normalizes to the same canonical key returns the same prober instance, and
\* the factory of a canonical key is invoked at most once, whatever alias
\* spelling each call uses.
C8_OneInstancePerCanonicalKey ==
    /\ \A p \in returned, q \in returned : p[1] = q[1] => p[2] = q[2]
    /\ \A i \in 1..Len(constructed), j \in 1..Len(constructed) :
          constructed[i] = constructed[j] => i = j
    /\ (gp.called /\ gp.err = NoError)
          => /\ <<normalizeTypeName(gp.raw), gp.prober>> \in returned
             /\ gp.prober # NoProber

C8_Witness ==
    /\ gp.called
    /\ gp.err = NoError
    /\ gp.canonical \in DOMAIN gp.before
    /\ gp.raw # gp.canonical
    /\ gp.prober = gp.before[gp.canonical]

\* C9: for an input whose canonical key has no entry in proberFactories,
\* GetProber returns a nil prober with an error and leaves the cache
\* unchanged; the cache's keys are always a subset of proberFactories' keys.
C9_UnsupportedTypeIsRejected ==
    /\ (gp.called /\ normalizeTypeName(gp.raw) \notin DOMAIN proberFactories)
          => /\ gp.prober = NoProber
             /\ gp.err # NoError
             /\ probers = gp.before
    /\ DOMAIN probers \subseteq DOMAIN proberFactories

C9_Witness ==
    /\ gp.called
    /\ gp.raw = <<"A","W","S",":",":","L","a","m","b","d","a",":",":","F","u","n","c","t","i","o","n">>
    /\ gp.err # NoError
    /\ DOMAIN probers # {}

\* C10: the unsupported-type error returned by GetProber carries both the raw
\* type string the caller passed and the list of canonical keys registered.
C10_ErrorCarriesRawAndSupported ==
    (gp.called /\ gp.err # NoError)
        => /\ contains(gp.err, gp.raw)
           /\ \A k \in SupportedTypes : contains(gp.err, k)

\* C11: concurrent GetProber calls never overlap a write of the probers map
\* with another call's read or write of it, and once every call has returned
\* each requested canonical key has been constructed once and every caller
\* of that key holds the instance the cache holds.
C11_CacheInsertIsExclusive ==
    /\ ~cc.raced
    /\ ~(\E g, h \in Goroutines : g # h /\ cc.calls[g].pc = "inserting"
                                         /\ cc.calls[h].pc = "inserting")
    /\ (\A g \in Goroutines : cc.calls[g].pc = "done") =>
          \A g \in Goroutines :
             cc.calls[g].prober # NoProber =>
                /\ cc.calls[g].canonical \in DOMAIN probers
                /\ probers[cc.calls[g].canonical] = cc.calls[g].prober
                /\ Cardinality({ i \in 1..Len(constructed) :
                                   constructed[i] = cc.calls[g].canonical }) = 1

\* C12: normalizeTypeName returns the canonical key of a resource kind for
\* each of its spellings: the Terraform-style name, the short name without
\* the aws_ prefix and the AWS::Service::Resource name.
C12_SpellingsShareCanonicalKey ==
    (fc.fn = "normalizeTypeName" /\ fc.applied >= 1) =>
        \A kind \in DOMAIN proberFactories :
            fc.arg \in {kind, SubSeq(kind, 5, Len(kind)), tfToCloudControl[kind]} =>
                fc.out = kind

C12_Witness ==
    /\ fc.fn = "normalizeTypeName" /\ fc.applied >= 1
    /\ fc.arg = SubSeq(K_aws_dynamodb_table, 5, Len(K_aws_dynamodb_table))
    /\ fc.out = K_aws_dynamodb_table

\* C13: normalizeTypeName returns a string for every input, and applying it
\* to its own result returns that result.
C13_NormalizeIsIdempotent ==
    fc.fn = "normalizeTypeName" =>
        /\ fc.applied >= 1 => fc.out \in Seq(STRING)
        /\ fc.applied = 2 => fc.twice = fc.out

C13_Witness ==
    /\ fc.fn = "normalizeTypeName" /\ fc.applied = 2
    /\ fc.arg = <<"A","W","S",":",":","s","3",":",":","B","U","C","K","E","T">>
    /\ fc.twice = K_aws_s3_bucket

\* C14: resolveCloudControlType returns the table's Cloud Control type for a
\* Terraform name of the table and every other input unchanged, and applying
\* it to its own result returns that result.
C14_ResolveMapsOrPassesThrough ==
    fc.fn = "resolveCloudControlType" =>
        /\ fc.applied >= 1 =>
              /\ fc.arg \in DOMAIN tfToCloudControl => fc.out = tfToCloudControl[fc.arg]
              /\ fc.arg \notin DOMAIN tfToCloudControl => fc.out = fc.arg
        /\ fc.applied = 2 => fc.twice = fc.out

C14_Witness ==
    /\ fc.fn = "resolveCloudControlType" /\ fc.applied = 2
    /\ fc.arg = <<"a","w","s","_","v","p","c">>
    /\ fc.twice = <<"A","W","S",":",":","E","C","2",":",":","V","P","C">>

\* C15: extractArn returns the string held by the first field of arnFields
\* that the map holds at its top level with a non-empty string, and "" when
\* there is none; with Arn and TableArn both set it returns the Arn value.
C15_FirstArnFieldWins ==
    (fc.fn = "extractArn" /\ fc.applied = 1) =>
        LET present(i) == HasArnAt(fc.arg, arnFields[i])
        IN  /\ (\A i \in 1..Len(arnFields) : ~present(i)) => fc.out = ""
            /\ \A i \in 1..Len(arnFields) :
                  (present(i) /\ \A j \in 1..(i - 1) : ~present(j)) =>
                      fc.out = fc.arg.m[arnFields[i]].string
            /\ (HasArnAt(fc.arg, "Arn") /\ HasArnAt(fc.arg, "TableArn")) =>
                  fc.out = fc.arg.m["Arn"].string

C15_Witness ==
    /\ fc.fn = "extractArn" /\ fc.applied = 1
    /\ HasArnAt(fc.arg, "Arn") /\ HasArnAt(fc.arg, "TableArn")
    /\ fc.out = "arn:generic"

\* C16: convertToAttrValue returns a value, without panicking, for every
\* JSON-like input, lists of differently-typed elements included, and the
\* default string rendering for a host type it does not know.
C16_ConvertIsTotal ==
    (fc.fn = "convertToAttrValue" /\ fc.applied = 1) =>
        /\ ~IsPanic(fc.out)
        /\ IsJ(fc.arg, "struct") => fc.out = StringValue(Sprintf(fc.arg))

\* The value `out` holds a null list where `in` holds an empty list and a null
\* map where `in` holds an empty map, at every depth
RECURSIVE EmptiesAreNull(_, _)
EmptiesAreNull(in, out) ==
    IF IsJ(in, "list")
    THEN IF Len(in.list) = 0 THEN out = ListNull(StringType)
         ELSE /\ "List" \in DOMAIN out
              /\ DOMAIN out.List = DOMAIN in.list
              /\ \A i \in DOMAIN in.list : EmptiesAreNull(in.list[i], out.List[i])
    ELSE IF IsJ(in, "map")
    THEN IF DOMAIN in.map = {} THEN out = MapNull(StringType)
         ELSE /\ "Object" \in DOMAIN out
              /\ DOMAIN out.Object = DOMAIN in.map
              /\ \A k \in DOMAIN in.map : EmptiesAreNull(in.map[k], out.Object[k])
    ELSE TRUE

\* The value holds no list, map or object that is empty and not null
RECURSIVE NoEmptyContainer(_)
NoEmptyContainer(out) ==
    IF "List" \in DOMAIN out
    THEN Len(out.List) > 0 /\ \A i \in DOMAIN out.List : NoEmptyContainer(out.List[i])
    ELSE IF "Object" \in DOMAIN out
    THEN DOMAIN out.Object # {} /\ \A k \in DOMAIN out.Object : NoEmptyContainer(out.Object[k])
    ELSE IF "Map" \in DOMAIN out
    THEN DOMAIN out.Map # {}
    ELSE TRUE

C18_IntegersBecomeInt64 ==
    (fc.fn = "convertToAttrValue" /\ fc.applied = 1) =>
        /\ IsJ(fc.arg, "int") => fc.out = [Int64 |-> fc.arg.int]
        /\ IsJ(fc.arg, "int64") => fc.out = [Int64 |-> fc.arg.int64]

\* C19: convertToAttrValue converts a map[string]string to a Map of strings
\* with the same keys and values, and an empty one to a null Map.
C19_StringMapsBecomeMaps ==
    (fc.fn = "convertToAttrValue" /\ fc.applied = 1 /\ IsJ(fc.arg, "stringmap")) =>
        fc.out = IF DOMAIN fc.arg.stringmap = {} THEN MapNull(StringType)
                 ELSE [MapElemType |-> StringType,
                       Map |-> [k \in DOMAIN fc.arg.stringmap |->
                                   StringValue(fc.arg.stringmap[k])]]

\* The evaluation results of pages i.. of the script, in page order
RECURSIVE ResultsFrom(_, _)
ResultsFrom(script, i) ==
    IF i > Len(script) THEN <<>>
    ELSE script[i].EvaluationResults \o ResultsFrom(script, i + 1)

\* The simulation Read went through: the configuration was decoded, the
\* request was built and every page was answered
SimSucceeded ==
    /\ sim.called /\ sim.diags = <<>> /\ sim.script # <<>>
    /\ \A i \in 1..Len(sim.script) : sim.script[i].err = NoSimErr

\* C20: a simulation Read that succeeds writes allowed = true exactly when
\* every evaluation result of every page has the decision "allowed", writes a
\* null error, returns as many results of each decision as the backend
\* reported, and with zero results writes allowed = true and null results.
C20_AllowedIsConjunction ==
    SimSucceeded =>
        LET reported == ResultsFrom(sim.script, 1)
            returnedWith(d) ==
                IF "List" \in DOMAIN sim.state.Results
                THEN Cardinality({ i \in DOMAIN sim.state.Results.List :
                        sim.state.Results.List[i].Object.decision = StringValue(d) })
                ELSE 0
            reportedWith(d) ==
                Cardinality({ i \in 1..Len(reported) : reported[i].EvalDecision = d })
        IN  /\ sim.state.written
            /\ sim.state.Allowed =
                  BoolValue(\A i \in 1..Len(reported) : reported[i].EvalDecision = "allowed")
            /\ sim.state.Error = StringNull
            /\ \A d \in {"allowed", "explicitDeny", "implicitDeny"} :
                  returnedWith(d) = reportedWith(d)
            /\ Len(reported) = 0 =>
                  /\ sim.state.Allowed = BoolValue(TRUE)
                  /\ sim.state.Results = ListNull(ObjectType(simulationResultAttrTypes))

C20_Witness ==
    /\ SimSucceeded
    /\ Len(sim.script) = 2
    /\ Len(sim.script[1].EvaluationResults) = 2
    /\ allAllowed(sim.script[1].EvaluationResults)
    /\ ~allAllowed(sim.script[2].EvaluationResults)
    /\ sim.state.Allowed = BoolValue(FALSE)
    /\ Len(sim.state.Results.List) = 4

\* C21: when a page request fails with NoSuchEntity or AccessDenied, at any
\* page, Read adds no diagnostic and writes allowed = false, a non-empty error
\* string and null results.
C21_SoftFailuresAreAbsorbed ==
    (sim.called /\ sim.script # <<>>
        /\ LET last == sim.script[Len(sim.script)].err
           IN  last.api /\ last.code \in {"NoSuchEntity", "AccessDenied"}) =>
        /\ sim.diags = <<>>
        /\ sim.state.written
        /\ sim.state.Allowed = BoolValue(FALSE)
        /\ "String" \in DOMAIN sim.state.Error
        /\ sim.state.Error.String # ""
        /\ sim.state.Results = ListNull(ObjectType(simulationResultAttrTypes))

C21_Witness ==
    /\ sim.called /\ Len(sim.script) = 2
    /\ Len(sim.script[1].EvaluationResults) = 2
    /\ sim.script[2].err = [api |-> TRUE, code |-> "AccessDenied"]
    /\ sim.state.written
    /\ sim.state.Results = ListNull(ObjectType(simulationResultAttrTypes))

\* C22: when a page request fails with any other error, at any page, Read
\* ends with an error diagnostic, writes no state and has requested exactly
\* the pages up to the failing one.
C22_OtherFailuresAreFatal ==
    (sim.called /\ sim.script # <<>>
        /\ LET last == sim.script[Len(sim.script)].err
           IN  last # NoSimErr
               /\ ~(last.api /\ last.code \in {"NoSuchEntity", "AccessDenied"})) =>
        /\ sim.diags # <<>>
        /\ sim.state = SimNoState
        /\ sim.requests = Len(sim.script)

C22_Witness ==
    /\ sim.called /\ Len(sim.script) = 2
    /\ Len(sim.script[1].EvaluationResults) = 2
    /\ sim.script[2].err = [api |-> TRUE, code |-> "Throttling"]
    /\ sim.diags # <<>>
    /\ ~sim.state.written
    /\ sim.requests = 2

\* C23: the request built by buildSimulationInput has ResourceArns = ["*"]
\* when resource_arns is null or an empty list, and the supplied list, in the
\* supplied order, otherwise.
C23_ResourceArnsDefaultToWildcard ==
    (sim.called /\ ~sim.input.null) =>
        sim.input.v.ResourceArns =
            IF sim.data.ResourceArns.null \/ sim.data.ResourceArns.v = <<>>
            THEN <<"*">>
            ELSE sim.data.ResourceArns.v

\* C24: a context entry's type tag is accepted exactly when it is one of the
\* twelve tags in some letter case; with every tag accepted the request
\* carries one context entry per configured entry, and with a tag rejected
\* Read ends with an error diagnostic, no request and no state.
C24_ContextTypeTagsAreParsed ==
    (sim.called /\ sim.data.ok /\ ~sim.data.Context.null) =>
        LET tags == { <<"s","t","r","i","n","g">>,
                    <<"s","t","r","i","n","g","L","i","s","t">>,
                    <<"n","u","m","e","r","i","c">>,
                    <<"n","u","m","e","r","i","c","L","i","s","t">>,
                    <<"b","o","o","l","e","a","n">>,
                    <<"b","o","o","l","e","a","n","L","i","s","t">>,
                    <<"d","a","t","e">>,
                    <<"d","a","t","e","L","i","s","t">>,
                    <<"i","p">>,
                    <<"i","p","L","i","s","t">>,
                    <<"b","i","n","a","r","y">>,
                    <<"b","i","n","a","r","y","L","i","s","t">> }
            entries == sim.data.Context.v
            recognized(type) == \E tag \in tags : ToLower(type) = ToLower(tag)
        IN  IF \A i \in 1..Len(entries) : recognized(entries[i].Type)
            THEN /\ ~sim.input.null
                 /\ sim.requests >= 1
                 /\ Len(sim.input.v.ContextEntries) = Len(entries)
                 /\ \A i \in 1..Len(entries) :
                       sim.input.v.ContextEntries[i].ContextKeyType
                           = contextKeyTypes[ToLower(entries[i].Type)]
            ELSE /\ sim.diags # <<>>
                 /\ sim.input.null
                 /\ sim.requests = 0
                 /\ sim.state = SimNoState

C24_Witness ==
    /\ sim.called /\ sim.data.ok /\ ~sim.data.Context.null
    /\ Len(sim.data.Context.v) = 2
    /\ sim.data.Context.v[2].Type = <<"t","e","x","t">>
    /\ sim.diags # <<>>
    /\ sim.requests = 0
    /\ ~sim.state.written

\* C25: in a list produced by convertResults each result's allowed flag is
\* true exactly when its decision string is "allowed", the decision string is
\* the name of the backend's decision kind, matched_statements and
\* missing_context_keys have as many elements as the backend reported, and
\* resource_arn is "*" when the backend reported no resource name.
C25_ResultsKeepTheirDetails ==
    (SimSucceeded /\ "List" \in DOMAIN sim.state.Results) =>
        LET reported == ResultsFrom(sim.script, 1)
            results == sim.state.Results.List
        IN  \A i \in DOMAIN results :
                LET o == results[i].Object
                IN  /\ o.allowed = BoolValue(o.decision = StringValue("allowed"))
                    /\ o.decision.String \in {"allowed", "explicitDeny", "implicitDeny"}
                    /\ o.decision = StringValue(reported[i].EvalDecision)
                    /\ Len(o.matched_statements.List) = Len(reported[i].MatchedStatements)
                    /\ Len(o.missing_context_keys.List)
                           = Len(reported[i].MissingContextValues)
                    /\ reported[i].EvalResourceName = <<>> =>
                           o.resource_arn = StringValue("*")

C25_Witness ==
    /\ SimSucceeded /\ "List" \in DOMAIN sim.state.Results
    /\ Len(sim.state.Results.List) = 2
    /\ sim.state.Results.List[2].Object.decision = StringValue("implicitDeny")
    /\ sim.state.Results.List[2].Object.allowed = BoolValue(FALSE)
    /\ sim.state.Results.List[2].Object.resource_arn = StringValue("*")
    /\ Len(sim.state.Results.List[2].Object.missing_context_keys.List) = 1

\* C28: a simulation Read that succeeds returns the results of all pages in
\* page order, each page's results in their order, and as many results as
\* the backend reported.
C28_PagesAreConcatenatedInOrder ==
    SimSucceeded =>
        LET reported == ResultsFrom(sim.script, 1)
        IN  IF Len(reported) = 0
            THEN sim.state.Results = ListNull(ObjectType(simulationResultAttrTypes))
            ELSE /\ "List" \in DOMAIN sim.state.Results
                 /\ Len(sim.state.Results.List) = Len(reported)
                 /\ \A i \in 1..Len(reported) :
                       sim.state.Results.List[i].Object.action
                           = StringValue(reported[i].EvalActionName)
                 /\ sim.requests = Len(sim.script)

C28_Witness ==
    /\ SimSucceeded /\ Len(sim.script) = 2
    /\ Len(sim.script[1].EvaluationResults) = 2
    /\ Len(sim.script[2].EvaluationResults) = 2
    /\ sim.script[1].EvaluationResults[1] # sim.script[2].EvaluationResults[1]
    /\ sim.state.Results.List[3].Object.action
          = StringValue(sim.script[2].EvaluationResults[1].EvalActionName)

\* C27: a Probe call of the DynamoDB or S3 prober whose primary lookup
\* returned not-found or an error issues the lookup request and no other,
\* and the DynamoDB prober issues its tag-listing request only after a
\* lookup that succeeded and returned a non-empty ARN.
C27_NoSecondaryRequestAfterFailure ==
    pr.called =>
        /\ LookupFailed(pr.lookup) =>
               /\ Len(pr.requests) = 1
               /\ pr.requests[1] \in LookupRequests
        /\ \A i \in 1..Len(pr.requests) :
               pr.requests[i] = "ListTagsOfResource" =>
                   /\ pr.prober = "DynamoDBProber"
                   /\ i > 1
                   /\ pr.requests[1] = "DescribeTable"
                   /\ ~LookupFailed(pr.lookup)
                   /\ pr.lookupArn # <<>>

C27_Witness ==
    /\ pr.called
    /\ pr.prober = "DynamoDBProber"
    /\ ~LookupFailed(pr.lookup)
    /\ pr.lookupArn = <<>>
    /\ pr.requests = <<"DescribeTable">>
    /\ pr.result.Exists

\* C29: convertToAttrValue converts a non-empty list to a list of the same
\* length whose i-th element is the conversion of the i-th input element and
\* whose declared element type is the type of the first converted element.
C29_ListsConvertElementwise ==
    (/\ fc.fn = "convertToAttrValue" /\ fc.applied = 1
     /\ IsJ(fc.arg, "list") /\ Len(fc.arg.list) > 0) =>
        /\ "List" \in DOMAIN fc.out
        /\ Len(fc.out.List) = Len(fc.arg.list)
        /\ \A i \in 1..Len(fc.arg.list) :
              fc.out.List[i] = convertToAttrValue(fc.arg.list[i])
        /\ fc.out.ListElemType = TypeOf(convertToAttrValue(fc.arg.list[1]))

\* C26: with localstack = false ProbeProvider.Configure never runs LocalStack
\* detection, applies no endpoint override and substitutes no dummy
\* credentials, whatever the other provider attributes are; otherwise an
\* explicit endpoint enables LocalStack mode with that endpoint; detection
\* runs only when both attributes are unset.
C26_LocalStackFalseForcesAws ==
    (pv.called /\ pv.diags # SimDiag("config")) =>
        LET disabled == ~pv.data.LocalStack.null /\ ~pv.data.LocalStack.v
            published == pv.DataSourceData.type = "aws.Config"
        IN  /\ disabled =>
                  /\ ~pv.detection
                  /\ ~pv.useLocalStack
                  /\ published =>
                        /\ pv.DataSourceData.BaseEndpoint = Null
                        /\ pv.DataSourceData.Credentials = "default"
            /\ (~disabled /\ ~pv.data.Endpoint.null) =>
                  /\ pv.useLocalStack
                  /\ pv.endpoint = pv.data.Endpoint.v
                  /\ published =>
                        pv.DataSourceData.BaseEndpoint = Some(pv.data.Endpoint.v)
            /\ pv.detection => (pv.data.LocalStack.null /\ pv.data.Endpoint.null)

\* C30: after a ProbeProvider.Configure without error diagnostics, the
\* Configure of each data source (probe, probe_iam_policy_simulation) takes
\* the published DataSourceData without an error diagnostic and holds a
\* usable backend client or configuration.
C30_PublishedDataIsAccepted ==
    (pv.called /\ pv.diags = <<>> /\ pv.dataSource # "none") =>
        /\ pv.dsDiags = <<>>
        /\ pv.client # "nil"

====
